---- MODULE Spec2Model ----
(***************************************************************************)
(* A model of the neuromonitor store and its pharmacokinetic engine.       *)
(*                                                                         *)
(* Number representation (JavaScript doubles become scaled integers):      *)
(*   time            one unit = 6 s (6000 ms), so a minute is 10             *)
(*                   units, an hour 600, and halfLife * 4.3 h is integral  *)
(*   halfLife,       tenths of an hour (the code rounds both with r1)      *)
(*   duration                                                              *)
(*   effectiveness   hundredths of a percent, 0..10000  (EffScale = 100)   *)
(*   impact,         1e-4, so magnitude * effectiveness / 100 is the       *)
(*   magnitude of a  integer product magnitude * effectiveness             *)
(*   StatusEffect                                                          *)
(*   levels,         1e-6 (LevelScale), so impact * 0.3, * 0.15 and * 0.2  *)
(*   sensitivity,    are the integer products impact * 30, * 15 and * 20   *)
(*   occupancy                                                             *)
(* Math.sin and Math.pow have no integer counterpart: SinHalfPi and Pow05  *)
(* are rational approximations that are monotone and exact at the ends     *)
(* (sin 0 = 0, sin(pi/2) = 1, 0.5^0 = 1, 0.5^1 = 0.5).                     *)
(***************************************************************************)
EXTENDS Integers, Sequences, FiniteSets, TLC

VARIABLES
    now,                \* Date.now(), in time units since local midnight of day 0
    defaultNeurotransmitters, \* data/neurotransmitters: the module-level array of definitions
    neurotransmitters,  \* store: the stored snapshot
    substanceLogs,      \* store: the log list
    sleepSchedule,      \* store
    viewMode,           \* store
    idCounter,          \* the entropy generateId() draws on: ids handed out so far
    advances,           \* number of clock advances so far (bounded)
    lastUpdate,         \* history: the clock and log list the last updateNTLevels read
    call                \* the last call of a pure engine function: its arguments and result

vars == <<now, defaultNeurotransmitters, neurotransmitters, substanceLogs, sleepSchedule,
          viewMode, idCounter, advances, lastUpdate, call>>

\* ---------------------------------------------------------------- units

UnitsPerMinute == 10
UnitsPerHour == 60 * UnitsPerMinute
UnitsPerDay == 24 * UnitsPerHour
EffScale == 100
ImpactScale == EffScale * EffScale
LevelScale == ImpactScale * EffScale

Min(a, b) == IF a <= b THEN a ELSE b
Max(a, b) == IF a >= b THEN a ELSE b

\* Math.round of the rational q.num / q.den (den > 0): floor(x + 0.5)
Round(q) == (2 * q.num + q.den) \div (2 * q.den)

\* ---------------------------------------------------------------- data/substances: helpers

\* the interpolation parameter t = (dose - low) / (high - low), kept as a fraction
DoseT(dose, low, high) == [num |-> dose - low, den |-> high - low]

\* lerp without the clamp of t
lerp_unclamped(a, b, t) == [num |-> a * t.den + (b - a) * t.num, den |-> t.den]

\* a + (b - a) * Math.max(0, Math.min(1, t)), as a fraction over t.den
lerp(a, b, t) ==
    [num |-> a * t.den + (b - a) * Max(0, Min(t.den, t.num)), den |-> t.den]

\* r1 applied to a value given in tenths: Math.round(n * 10), the result stays in tenths
r1(q) == Round(q)

\* ---------------------------------------------------------------- data/substances: catalog

SubstanceIds ==
    {"caffeine", "l-theanine", "nicotine", "l-tyrosine", "flmodafinil", "bromantane", "shilajit"}

SubstanceName(id) ==
    CASE id = "caffeine" -> "Caffeine"
      [] id = "l-theanine" -> "L-Theanine"
      [] id = "nicotine" -> "Nicotine"
      [] id = "l-tyrosine" -> "L-Tyrosine"
      [] id = "flmodafinil" -> "Flmodafinil"
      [] id = "bromantane" -> "Bromantane"
      [] id = "shilajit" -> "Shilajit"

commonDoses(id) ==
    CASE id = "caffeine" -> {50, 100, 200}
      [] id = "l-theanine" -> {100, 200, 400}
      [] id = "nicotine" -> {1, 2, 4}
      [] id = "l-tyrosine" -> {250, 500, 1000}
      [] id = "flmodafinil" -> {25, 50, 100}
      [] id = "bromantane" -> {25, 50, 100}
      [] id = "shilajit" -> {250, 500}

\* the two calibration anchor doses of each substance's getDosePK
AnchorLow(id) ==
    CASE id = "caffeine" -> 50
      [] id = "l-theanine" -> 100
      [] id = "nicotine" -> 1
      [] id = "l-tyrosine" -> 250
      [] id = "flmodafinil" -> 25
      [] id = "bromantane" -> 25
      [] id = "shilajit" -> 250

AnchorHigh(id) ==
    CASE id = "caffeine" -> 400
      [] id = "l-theanine" -> 400
      [] id = "nicotine" -> 6
      [] id = "l-tyrosine" -> 1000
      [] id = "flmodafinil" -> 100
      [] id = "bromantane" -> 100
      [] id = "shilajit" -> 500

\* the fields each getDosePK interpolates, with the two endpoint values handed to lerp
\* (halfLife and duration in tenths of an hour, onsetTime and peakTime in minutes)
InterpolatedFields(id) ==
    LET F(field, lo, hi) == [field |-> field, lo |-> lo, hi |-> hi]
    IN CASE id = "caffeine" -> {F("halfLife", 45, 65), F("peakTime", 40, 50)}
         [] id = "l-theanine" -> {F("onsetTime", 35, 25), F("duration", 30, 70)}
         [] id = "nicotine" -> {F("duration", 35, 50)}
         [] id = "l-tyrosine" -> {F("halfLife", 18, 25), F("peakTime", 75, 120),
                                  F("duration", 40, 60)}
         [] id = "flmodafinil" -> {F("halfLife", 120, 150), F("onsetTime", 15, 25),
                                   F("peakTime", 180, 300), F("duration", 140, 180)}
         [] id = "bromantane" -> {F("peakTime", 165, 210)}
         [] id = "shilajit" -> {F("peakTime", 150, 210), F("duration", 100, 140)}

PK(hl, onset, peak, dur, tol) ==
    [halfLife |-> hl, onsetTime |-> onset, peakTime |-> peak, duration |-> dur,
     toleranceRate |-> tol]

caffeinePK(dose) ==
    LET t == DoseT(dose, 50, 400)
        halfLife == r1(lerp(45, 65, t))
    IN PK(halfLife, 15, Round(lerp(40, 50, t)), r1([num |-> halfLife * 22, den |-> 10]), 5)

theaninePK(dose) ==
    LET t == DoseT(dose, 100, 400)
    IN PK(11, Round(lerp(35, 25, t)), 50, r1(lerp(30, 70, t)), 1)

nicotinePK(dose) ==
    LET t == DoseT(dose, 1, 6)
    IN PK(20, 5, 15, r1(lerp(35, 50, t)), 12)

tyrosinePK(dose) ==
    LET t == DoseT(dose, 250, 1000)
    IN PK(r1(lerp(18, 25, t)), 30, Round(lerp(75, 120, t)), r1(lerp(40, 60, t)), 2)

flmodafinilPK(dose) ==
    LET t == DoseT(dose, 25, 100)
    IN PK(r1(lerp(120, 150, t)), Round(lerp(15, 25, t)), Round(lerp(180, 300, t)),
          r1(lerp(140, 180, t)), 3)

bromantanePK(dose) ==
    LET t == DoseT(dose, 25, 100)
    IN PK(110, 90, Round(lerp(165, 210, t)), 240, 1)

shilajitPK(dose) ==
    LET t == DoseT(dose, 250, 500)
    IN PK(70, 60, Round(lerp(150, 210, t)), r1(lerp(100, 140, t)), 2)

\* substance.getDosePK(dose), for the substance with this id
getDosePK(id, dose) ==
    CASE id = "caffeine" -> caffeinePK(dose)
      [] id = "l-theanine" -> theaninePK(dose)
      [] id = "nicotine" -> nicotinePK(dose)
      [] id = "l-tyrosine" -> tyrosinePK(dose)
      [] id = "flmodafinil" -> flmodafinilPK(dose)
      [] id = "bromantane" -> bromantanePK(dose)
      [] id = "shilajit" -> shilajitPK(dose)

RI(r, nt, type, m) == [receptorId |-> r, ntId |-> nt, type |-> type, magnitude |-> m]

receptorInteractions(id) ==
    CASE id = "caffeine" ->
            <<RI("a1", "adenosine", "antagonist", 80), RI("a2a", "adenosine", "antagonist", 70),
              RI("d2", "dopamine", "modulation", 20)>>
      [] id = "l-theanine" ->
            <<RI("gabaa", "gaba", "agonist", 35), RI("5ht1a", "serotonin", "modulation", 20),
              RI("d1", "dopamine", "modulation", 15)>>
      [] id = "nicotine" ->
            <<RI("d1", "dopamine", "agonist", 55), RI("d2", "dopamine", "agonist", 45)>>
      [] id = "l-tyrosine" ->
            <<RI("d1", "dopamine", "precursor", 40), RI("d2", "dopamine", "precursor", 35)>>
      [] id = "flmodafinil" ->
            <<RI("d1", "dopamine", "agonist", 50), RI("a2a", "adenosine", "antagonist", 25),
              RI("5ht1a", "serotonin", "modulation", 12)>>
      [] id = "bromantane" ->
            <<RI("d1", "dopamine", "upregulation", 50), RI("d2", "dopamine", "upregulation", 45)>>
      [] id = "shilajit" ->
            <<RI("d1", "dopamine", "modulation", 30), RI("d2", "dopamine", "modulation", 25)>>

\* substanceMap.has(id)
substanceMapHas(id) == id \in SubstanceIds

\* ---------------------------------------------------------------- engine/pharmacokinetics

RECURSIVE Pow2(_)
Pow2(n) == IF n = 0 THEN 1 ELSE 2 * Pow2(n - 1)

\* Math.pow(0.5, num / den) * 10000 for num >= 0, den > 0.  With num / den = n + f,
\* 0 <= f < 1: 0.5^n exactly, and 0.5^f by the quadratic (6 - 4f + f^2) / 6, which is
\* 1 at f = 0, 1/2 at f = 1, decreasing, and within 0.2% of 0.5^f in between.
Pow05(num, den) ==
    LET n == num \div den
        f == ((num % den) * 1000) \div den
        frac == (6000000 - 4000 * f + f * f) \div 600
    IN IF n >= 14 THEN 0 ELSE frac \div Pow2(n)

\* Math.sin((Math.PI / 2) * p) * 10000 for p = num / den in [0, 1], by Bhaskara's
\* approximation sin(pi/2 * p) ~ 4x / (5 - x), x = p (2 - p): 0 at p = 0, 1 at p = 1,
\* increasing, and within 0.2% of the sine in between.
SinHalfPi(num, den) ==
    LET p == (num * 1000) \div den
        x == (p * (2000 - p)) \div 1000
    IN (40000 * x) \div (5000 - x)

\* calculateDecay taking the elapsed hours themselves as the exponent
calculateDecay_perHour(dose, halfLife, elapsed) ==
    IF elapsed < 0 THEN 0
    ELSE (dose * Pow05(elapsed, UnitsPerHour)) \div 10000

\* dose * 0.5^(elapsedHours / halfLife); halfLife in tenths of an hour, elapsed in units
calculateDecay(dose, halfLife, elapsed) ==
    IF elapsed < 0 THEN 0
    ELSE (dose * Pow05(elapsed * 10, halfLife * UnitsPerHour)) \div 10000

\* getEffectiveness without the onset ramp: decay from the moment of logging
getEffectiveness_noRamp(log, substance, nowMs) ==
    LET elapsed == nowMs - log.timestamp
        pk == getDosePK(substance, log.dosage)
    IN IF elapsed < 0 THEN 0
       ELSE calculateDecay(100 * EffScale, pk.halfLife, elapsed)

\* getEffectiveness measuring the distance to the timestamp, before or after it
getEffectiveness_absElapsed(log, substance, nowMs) ==
    LET elapsed == IF nowMs < log.timestamp THEN log.timestamp - nowMs
                   ELSE nowMs - log.timestamp
        pk == getDosePK(substance, log.dosage)
        peak == pk.peakTime * UnitsPerMinute
    IN IF elapsed <= peak
       THEN IF peak > 0 THEN SinHalfPi(Min(elapsed, peak), peak) ELSE SinHalfPi(1, 1)
       ELSE calculateDecay(100 * EffScale, pk.halfLife, elapsed - peak)

\* the body of getEffectiveness with progress = elapsedMinutes / peakMin whatever peakMin
\* is: 0 / 0 is NaN, and so is the sine of it, which no comparison ever finds >= 1
effectivenessAt_noPeakGuard(pk, elapsed) ==
    LET peak == pk.peakTime * UnitsPerMinute
    IN IF elapsed < 0 THEN 0
       ELSE IF elapsed <= peak
            THEN IF peak > 0 THEN SinHalfPi(Min(elapsed, peak), peak) ELSE 0
            ELSE calculateDecay(100 * EffScale, pk.halfLife, elapsed - peak)

\* the body of getEffectiveness with a ramp of Math.cos: full at the moment of logging
effectivenessAt_cosineRamp(pk, elapsed) ==
    LET peak == pk.peakTime * UnitsPerMinute
    IN IF elapsed < 0 THEN 0
       ELSE IF elapsed <= peak
            THEN IF peak > 0 THEN SinHalfPi(peak - Min(elapsed, peak), peak)
                             ELSE SinHalfPi(1, 1)
            ELSE calculateDecay(100 * EffScale, pk.halfLife, elapsed - peak)

\* the body of getEffectiveness once the dose's kinetics are resolved: elapsed in units
\* since log.timestamp, the result in hundredths of a percent
effectivenessAt(pk, elapsed) ==
    LET peak == pk.peakTime * UnitsPerMinute
    IN IF elapsed < 0 THEN 0
       ELSE IF elapsed <= peak
            THEN IF peak > 0 THEN SinHalfPi(Min(elapsed, peak), peak)
                             ELSE SinHalfPi(1, 1)
            ELSE calculateDecay(100 * EffScale, pk.halfLife, elapsed - peak)

\* getEffectiveness(log, substance, nowMs), in hundredths of a percent
getEffectiveness(log, substance, nowMs) ==
    effectivenessAt(getDosePK(substance, log.dosage), nowMs - log.timestamp)

RECURSIVE ImpactLoop(_, _, _, _)
ImpactLoop(interactions, effectivenessPercent, i, impact) ==
    IF i > Len(interactions) THEN impact
    ELSE LET interaction == interactions[i]
             effectiveMagnitude == interaction.magnitude * effectivenessPercent
             current == IF interaction.receptorId \in DOMAIN impact
                        THEN impact[interaction.receptorId] ELSE 0
             capped == Min(current + effectiveMagnitude, 100 * ImpactScale)
             next == [r \in (DOMAIN impact) \cup {interaction.receptorId} |->
                        IF r = interaction.receptorId THEN capped ELSE impact[r]]
         IN ImpactLoop(interactions, effectivenessPercent, i + 1, next)

\* calculateReceptorImpact with impact.set(receptorId, effectiveMagnitude): the last
\* interaction on a receptor replaces the earlier ones
calculateReceptorImpact_lastWins(interactions, effectivenessPercent) ==
    [r \in {interactions[i].receptorId : i \in DOMAIN interactions} |->
        LET last == CHOOSE i \in DOMAIN interactions :
                        /\ interactions[i].receptorId = r
                        /\ \A j \in DOMAIN interactions :
                               interactions[j].receptorId = r => j <= i
        IN Min(interactions[last].magnitude * effectivenessPercent, 100 * ImpactScale)]

\* the Map receptorId -> magnitude, as a function whose domain is the receptors touched
calculateReceptorImpact(interactions, effectivenessPercent) ==
    ImpactLoop(interactions, effectivenessPercent, 1, [r \in {} |-> 0])

\* calculateClearanceTime from the reference half-life of defaultPK, whatever the dose
calculateClearanceTime_defaultPK(substance, dose) ==
    LET halfLife == CASE substance = "caffeine" -> 50
                      [] substance = "l-theanine" -> 11
                      [] substance = "nicotine" -> 20
                      [] substance = "l-tyrosine" -> 20
                      [] substance = "flmodafinil" -> 130
                      [] substance = "bromantane" -> 110
                      [] substance = "shilajit" -> 70
    IN (halfLife * 43 * UnitsPerHour) \div 100

\* calculateClearanceTime keeping a log active for 7 half-lives
calculateClearanceTime_sevenHalfLives(substance, dose) ==
    LET pk == getDosePK(substance, dose)
    IN (pk.halfLife * 70 * UnitsPerHour) \div 100

\* pk.halfLife * 4.3 * 60 * 60 * 1000 ms, in time units (UnitsPerHour * 43 / 100 = 258)
calculateClearanceTime(substance, dose) ==
    LET pk == getDosePK(substance, dose)
    IN (pk.halfLife * 43 * UnitsPerHour) \div 100

\* `${d.getFullYear()}-${d.getMonth()}-${d.getDate()}` of new Date(timestamp): the local
\* calendar day, numbered from the model's day 0
LocalDay(timestamp) == timestamp \div UnitsPerDay

\* the indices of logs kept by the filter of calculateTolerance
RecentIndices(logs, substance, nowMs) ==
    LET sevenDaysAgo == nowMs - 7 * UnitsPerDay
    IN {i \in 1..Len(logs) :
          logs[i].substanceId = substance /\ logs[i].timestamp > sevenDaysAgo}

\* recentLogs[recentLogs.length - 1] after the stable sort by timestamp: the latest kept
\* log, and among equal timestamps the one that comes last in the list
LastRecentIndex(logs, recent) ==
    CHOOSE i \in recent :
        \A j \in recent :
            \/ logs[j].timestamp < logs[i].timestamp
            \/ (logs[j].timestamp = logs[i].timestamp /\ j <= i)

\* calculateTolerance counting the kept logs instead of the days they fall on
calculateTolerance_perLog(logs, substance, nowMs) ==
    LET recent == RecentIndices(logs, substance, nowMs)
    IN IF recent = {} THEN 100
       ELSE LET lastDose == logs[LastRecentIndex(logs, recent)].dosage
                pk == getDosePK(substance, lastDose)
            IN Max(100 - Cardinality(recent) * pk.toleranceRate, 10)

\* calculateTolerance(logs, substance, nowMs), in percent
calculateTolerance(logs, substance, nowMs) ==
    LET recent == RecentIndices(logs, substance, nowMs)
    IN IF recent = {} THEN 100
       ELSE LET daySet == {LocalDay(logs[i].timestamp) : i \in recent}
                consecutiveDays == Cardinality(daySet)
                lastDose == logs[LastRecentIndex(logs, recent)].dosage
                pk == getDosePK(substance, lastDose)
                toleranceLoss == consecutiveDays * pk.toleranceRate
            IN Max(100 - toleranceLoss, 10)

\* ---------------------------------------------------------------- data/neurotransmitters

Receptor(id, occupancy) ==
    [id |-> id, sensitivity |-> 100 * LevelScale, occupancy |-> occupancy * LevelScale,
     statusEffects |-> <<>>]

NT(id, baselineLevel, status, receptors) ==
    [id |-> id, baselineLevel |-> baselineLevel * LevelScale,
     currentLevel |-> baselineLevel * LevelScale, status |-> status, receptors |-> receptors]

\* the value the module gives defaultNeurotransmitters when it is loaded
InitialNeurotransmitters ==
    << NT("adenosine", 20, "rising", <<Receptor("a1", 20), Receptor("a2a", 20)>>),
       NT("dopamine", 60, "stable", <<Receptor("d1", 50), Receptor("d2", 50)>>),
       NT("serotonin", 55, "stable", <<Receptor("5ht1a", 50), Receptor("5ht2a", 50)>>),
       NT("gaba", 50, "stable", <<Receptor("gabaa", 50), Receptor("gabab", 50)>>) >>

\* circadianRhythm.getLevel(hour) of each system; the hour comes as m = hour * 60, the
\* minute of the day (getCurrentHour has minute resolution), the level in 1e-6
\* adenosine accumulating from the stored wake time instead of from 7
adenosineLevel_fromWakeTime(m) ==
    LET wake == IF sleepSchedule.wakeTime = "07:00" THEN 7 * 60 ELSE 9 * 60 + 30
    IN IF m >= 23 * 60 \/ m < wake THEN 10 * LevelScale
       ELSE Min(10 * LevelScale + ((m - wake) * 280000) \div 3, 100 * LevelScale)

adenosineLevel(m) ==
    IF m >= 23 * 60 \/ m < 7 * 60 THEN 10 * LevelScale
    ELSE Min(10 * LevelScale + ((m - 7 * 60) * 280000) \div 3, 100 * LevelScale)

dopamineLevel(m) ==
    IF m >= 23 * 60 \/ m < 7 * 60 THEN 40 * LevelScale
    ELSE IF m >= 7 * 60 /\ m < 10 * 60 THEN 40 * LevelScale + ((m - 7 * 60) * 500000) \div 3
    ELSE IF m >= 10 * 60 /\ m < 14 * 60 THEN 70 * LevelScale
    ELSE IF m >= 14 * 60 /\ m < 18 * 60
         THEN (3 * 70 * LevelScale - (m - 14 * 60) * 250000) \div 3
    ELSE (3 * 50 * LevelScale - (m - 18 * 60) * 100000) \div 3

serotoninLevel(m) ==
    IF m >= 22 * 60 \/ m < 6 * 60 THEN 35 * LevelScale
    ELSE IF m >= 6 * 60 /\ m < 12 * 60 THEN 35 * LevelScale + ((m - 6 * 60) * 875000) \div 9
    ELSE IF m >= 12 * 60 /\ m < 16 * 60 THEN 70 * LevelScale
    ELSE (9 * 70 * LevelScale - (m - 16 * 60) * 875000) \div 9

gabaLevel(m) ==
    IF m >= 22 * 60 \/ m < 6 * 60 THEN 75 * LevelScale
    ELSE IF m >= 6 * 60 /\ m < 10 * 60 THEN 75 * LevelScale - (m - 6 * 60) * 125000
    ELSE IF m >= 10 * 60 /\ m < 18 * 60 THEN 45 * LevelScale
    ELSE 45 * LevelScale + (m - 18 * 60) * 125000

\* baseNT.circadianRhythm.getLevel(hour)
getLevel(ntId, m) ==
    CASE ntId = "adenosine" -> adenosineLevel(m)
      [] ntId = "dopamine" -> dopamineLevel(m)
      [] ntId = "serotonin" -> serotoninLevel(m)
      [] ntId = "gaba" -> gabaLevel(m)

\* ---------------------------------------------------------------- store

\* getCurrentHour(): now.getHours() + now.getMinutes() / 60, as the minute of the day
getCurrentHour(nowMs) == (nowMs % UnitsPerDay) \div UnitsPerMinute

\* the receptor record built by the inner map of updateNTLevels.  The default occupancies
\* and baselines are multiples of 5, so the quotient r.occupancy / baseNT.baselineLevel is
\* taken over fifths to keep the product within 32 bits.
ResetReceptor(r, baseNT, hour) ==
    [id |-> r.id,
     occupancy |-> (getLevel(baseNT.id, hour) * (r.occupancy \div (5 * LevelScale)))
                       \div (baseNT.baselineLevel \div (5 * LevelScale)),
     sensitivity |-> 100 * LevelScale,
     statusEffects |-> <<>>]

\* the outer map without its `status: 'stable'`
ResetNT_keepStatus(baseNT, hour) ==
    [id |-> baseNT.id,
     baselineLevel |-> baseNT.baselineLevel,
     currentLevel |-> getLevel(baseNT.id, hour),
     receptors |-> [k \in DOMAIN baseNT.receptors |-> ResetReceptor(baseNT.receptors[k], baseNT, hour)],
     status |-> baseNT.status]

\* the neurotransmitter record built by the outer map of updateNTLevels
ResetNT(baseNT, hour) ==
    [id |-> baseNT.id,
     baselineLevel |-> baseNT.baselineLevel,
     currentLevel |-> getLevel(baseNT.id, hour),
     receptors |-> [k \in DOMAIN baseNT.receptors |-> ResetReceptor(baseNT.receptors[k], baseNT, hour)],
     status |-> "stable"]

\* the lookup returning the last interaction on the receptor instead of the first
FindInteraction_last(interactions, receptorId) ==
    LET hits == {i \in 1..Len(interactions) : interactions[i].receptorId = receptorId}
    IN IF hits = {} THEN 0 ELSE CHOOSE i \in hits : \A j \in hits : i >= j

\* substance.receptorInteractions.find(i => i.receptorId === receptorId): the index of
\* the first match, 0 for undefined
FindInteraction(interactions, receptorId) ==
    LET hits == {i \in 1..Len(interactions) : interactions[i].receptorId = receptorId}
    IN IF hits = {} THEN 0 ELSE CHOOSE i \in hits : \A j \in hits : i <= j

\* the switch without its Math.min / Math.max clamps
ApplyToReceptor_unclamped(nt, k, substance, impacts, log) ==
    LET receptor == nt.receptors[k]
        interactions == receptorInteractions(substance)
        found == FindInteraction(interactions, receptor.id)
    IN IF receptor.id \notin DOMAIN impacts THEN nt
       ELSE IF found = 0 THEN nt
       ELSE LET interaction == interactions[found]
                impact == impacts[receptor.id]
                effect == [type |-> interaction.type, source |-> SubstanceName(substance),
                           magnitude |-> impact, startTime |-> log.timestamp]
                pushed == [nt EXCEPT !.receptors[k].statusEffects = Append(@, effect)]
            IN CASE interaction.type \in {"agonist", "precursor"} ->
                      [pushed EXCEPT !.currentLevel = @ + impact * 30, !.status = "enhanced"]
                 [] interaction.type = "antagonist" ->
                      [pushed EXCEPT !.currentLevel = @ - impact * 30, !.status = "blocked"]
                 [] interaction.type = "upregulation" ->
                      [pushed EXCEPT !.receptors[k].sensitivity = @ + impact * 20,
                                     !.status = "enhanced"]
                 [] interaction.type = "downregulation" ->
                      [pushed EXCEPT !.receptors[k].sensitivity = @ - impact * 20,
                                     !.status = "falling"]
                 [] interaction.type = "modulation" ->
                      [pushed EXCEPT !.currentLevel = @ + impact * 15,
                                     !.status = IF @ = "stable" THEN "enhanced" ELSE @]

\* the switch with a modulation case that sets the status as the other cases do
ApplyRule_modulationOverwrites(nt, k, interactions, source, impacts, log) ==
    LET receptor == nt.receptors[k]
        found == FindInteraction(interactions, receptor.id)
    IN IF receptor.id \notin DOMAIN impacts THEN nt
       ELSE IF found = 0 THEN nt
       ELSE LET interaction == interactions[found]
                impact == impacts[receptor.id]
                effect == [type |-> interaction.type, source |-> source,
                           magnitude |-> impact, startTime |-> log.timestamp]
                pushed == [nt EXCEPT !.receptors[k].statusEffects = Append(@, effect)]
            IN CASE interaction.type \in {"agonist", "precursor"} ->
                      [pushed EXCEPT !.currentLevel = Min(@ + impact * 30, 100 * LevelScale),
                                     !.status = "enhanced"]
                 [] interaction.type = "antagonist" ->
                      [pushed EXCEPT !.currentLevel = Max(@ - impact * 30, 0),
                                     !.status = "blocked"]
                 [] interaction.type = "upregulation" ->
                      [pushed EXCEPT !.receptors[k].sensitivity =
                                          Min(@ + impact * 20, 150 * LevelScale),
                                     !.status = "enhanced"]
                 [] interaction.type = "downregulation" ->
                      [pushed EXCEPT !.receptors[k].sensitivity =
                                          Max(@ - impact * 20, 20 * LevelScale),
                                     !.status = "falling"]
                 [] interaction.type = "modulation" ->
                      [pushed EXCEPT !.currentLevel = Min(@ + impact * 15, 100 * LevelScale),
                                     !.status = "enhanced"]

\* the body of the loop over nt.receptors for one receptor: push the effect, then the switch
ApplyRule(nt, k, interactions, source, impacts, log) ==
    LET receptor == nt.receptors[k]
        found == FindInteraction(interactions, receptor.id)
    IN IF receptor.id \notin DOMAIN impacts THEN nt
       ELSE IF found = 0 THEN nt
       ELSE LET interaction == interactions[found]
                impact == impacts[receptor.id]
                effect == [type |-> interaction.type, source |-> source,
                           magnitude |-> impact, startTime |-> log.timestamp]
                pushed == [nt EXCEPT !.receptors[k].statusEffects = Append(@, effect)]
            IN CASE interaction.type \in {"agonist", "precursor"} ->
                      [pushed EXCEPT !.currentLevel = Min(@ + impact * 30, 100 * LevelScale),
                                     !.status = "enhanced"]
                 [] interaction.type = "antagonist" ->
                      [pushed EXCEPT !.currentLevel = Max(@ - impact * 30, 0),
                                     !.status = "blocked"]
                 [] interaction.type = "upregulation" ->
                      [pushed EXCEPT !.receptors[k].sensitivity =
                                          Min(@ + impact * 20, 150 * LevelScale),
                                     !.status = "enhanced"]
                 [] interaction.type = "downregulation" ->
                      [pushed EXCEPT !.receptors[k].sensitivity =
                                          Max(@ - impact * 20, 20 * LevelScale),
                                     !.status = "falling"]
                 [] interaction.type = "modulation" ->
                      [pushed EXCEPT !.currentLevel = Min(@ + impact * 15, 100 * LevelScale),
                                     !.status = IF @ = "stable" THEN "enhanced" ELSE @]

\* the body of the loop over nt.receptors, for the substance with this id
ApplyToReceptor(nt, k, substance, impacts, log) ==
    ApplyRule(nt, k, receptorInteractions(substance), SubstanceName(substance), impacts, log)

\* the loop over nt.receptors with a cap across substances: a receptor that already
\* holds a StatusEffect takes no second one
RECURSIVE ReceptorLoop_oneEffect(_, _, _, _, _)
ReceptorLoop_oneEffect(nt, k, substance, impacts, log) ==
    IF k > Len(nt.receptors) THEN nt
    ELSE ReceptorLoop_oneEffect(IF nt.receptors[k].statusEffects # <<>> THEN nt
                                ELSE ApplyToReceptor(nt, k, substance, impacts, log),
                                k + 1, substance, impacts, log)

\* the loop over nt.receptors with a cap per substance: a receptor that already holds a
\* StatusEffect of this substance takes no second one
RECURSIVE ReceptorLoop_oncePerSubstance(_, _, _, _, _)
ReceptorLoop_oncePerSubstance(nt, k, substance, impacts, log) ==
    IF k > Len(nt.receptors) THEN nt
    ELSE LET effects == nt.receptors[k].statusEffects
             held == \E e \in DOMAIN effects : effects[e].source = SubstanceName(substance)
         IN ReceptorLoop_oncePerSubstance(
                IF held THEN nt ELSE ApplyToReceptor(nt, k, substance, impacts, log),
                k + 1, substance, impacts, log)

\* for (const receptor of nt.receptors)
RECURSIVE ReceptorLoop(_, _, _, _, _)
ReceptorLoop(nt, k, substance, impacts, log) ==
    IF k > Len(nt.receptors) THEN nt
    ELSE ReceptorLoop(ApplyToReceptor(nt, k, substance, impacts, log), k + 1,
                      substance, impacts, log)

\* the loop body with a fallback for an unknown id: substanceMap.get(id) ?? substances[0]
ApplyLog_fallback(updated, log, nowMs) ==
    LET substance == IF substanceMapHas(log.substanceId) THEN log.substanceId ELSE "caffeine"
        effectiveness == getEffectiveness(log, substance, nowMs)
    IN IF effectiveness < 1 * EffScale THEN updated
       ELSE LET impacts == calculateReceptorImpact(receptorInteractions(substance),
                                                   effectiveness)
            IN [n \in DOMAIN updated |->
                   ReceptorLoop(updated[n], 1, substance, impacts, log)]

\* the loop body without `if (effectiveness < 1) continue`
ApplyLog_noSkip(updated, log, nowMs) ==
    IF ~substanceMapHas(log.substanceId) THEN updated
    ELSE LET substance == log.substanceId
             effectiveness == getEffectiveness(log, substance, nowMs)
             impacts == calculateReceptorImpact(receptorInteractions(substance), effectiveness)
         IN [n \in DOMAIN updated |-> ReceptorLoop(updated[n], 1, substance, impacts, log)]

\* the body of the loop over activeLogs for one log
ApplyLog(updated, log, nowMs) ==
    IF ~substanceMapHas(log.substanceId) THEN updated
    ELSE LET substance == log.substanceId
             effectiveness == getEffectiveness(log, substance, nowMs)
         IN IF effectiveness < 1 * EffScale THEN updated
            ELSE LET impacts == calculateReceptorImpact(receptorInteractions(substance),
                                                        effectiveness)
                 IN [n \in DOMAIN updated |->
                        ReceptorLoop(updated[n], 1, substance, impacts, log)]

RECURSIVE LogLoop(_, _, _, _)
LogLoop(updated, activeLogs, i, nowMs) ==
    IF i > Len(activeLogs) THEN updated
    ELSE LogLoop(ApplyLog(updated, activeLogs[i], nowMs), activeLogs, i + 1, nowMs)

\* updateNTLevels without the filter: every log of the list is applied
ActiveLogs_unfiltered(logs, nowMs) == logs

\* substanceLogs.filter(l => l.expectedClearance > now)
ActiveLogs(logs, nowMs) == SelectSeq(logs, LAMBDA l : l.expectedClearance > nowMs)

\* updateNTLevels mapping the stored snapshot instead of the definitions
BaseNTs_stored == neurotransmitters

\* the array updateNTLevels maps to build `updated`
BaseNTs == defaultNeurotransmitters

\* the snapshot updateNTLevels builds from the array `base`, the log list and the clock
RecomputeFrom(base, logs, nowMs, hour) ==
    LET updated == [n \in DOMAIN base |-> ResetNT(base[n], hour)]
    IN LogLoop(updated, ActiveLogs(logs, nowMs), 1, nowMs)

\* the snapshot updateNTLevels hands to set()
Recompute(logs, nowMs, hour) == RecomputeFrom(BaseNTs, logs, nowMs, hour)

\* updateNTLevels writing through to what it reads: the map returning baseNT itself after
\* assigning to it, so that the loop's writes land on the definitions
DefaultsAfterUpdate_inPlace(defaults, updated) == updated

\* defaultNeurotransmitters once updateNTLevels has run: `updated` is made of new records
\* ({...baseNT}, {...r}, statusEffects: []), and the loop assigns and pushes only to those
DefaultsAfterUpdate(defaults, updated) == defaults

\* updateNTLevels dropping the cleared logs from the stored array itself
LogsAfterUpdate_inPlace(logs, nowMs) == ActiveLogs(logs, nowMs)

\* the stored log array once updateNTLevels has run: filter returns a new array, and the
\* loop only reads the logs
LogsAfterUpdate(logs, nowMs) == logs

\* updateNTLevels(): the whole handler; logs is the list get() returns
updateNTLevels(logs) ==
    /\ neurotransmitters' = Recompute(logs, now, getCurrentHour(now))
    /\ lastUpdate' = [now |-> now, logs |-> logs]
    /\ substanceLogs' = LogsAfterUpdate(logs, now)
    /\ defaultNeurotransmitters' = DefaultsAfterUpdate(defaultNeurotransmitters, neurotransmitters')

\* bounds of the store's runs: logs created, clock advances
MaxLogs == 2
MaxAdvances == 1
\* the clock readings a run can start at: one in each piece of the circadian functions
StartTimes == {8 * UnitsPerHour}
\* how far the clock moves between two handlers
Deltas == {15 * UnitsPerMinute, 10 * UnitsPerHour}
\* the ids logSubstance is called with: the catalog's and one that is not in it
LogIds == SubstanceIds \cup {"melatonin"}
\* the dose logSubstance is called with: the second dose button of the substance's card
LogDoses(id) ==
    IF id \in SubstanceIds
    THEN {d \in commonDoses(id) : Cardinality({e \in commonDoses(id) : e < d}) = 1}
    ELSE {1}
SleepSchedules ==
    {[wakeTime |-> "07:00", sleepTime |-> "23:00"], [wakeTime |-> "09:30", sleepTime |-> "01:00"]}

\* generateId(): an id no earlier log has
generateId == idCounter + 1

logSubstance(substanceId, dosage) ==
    /\ idCounter < MaxLogs
    /\ IF ~substanceMapHas(substanceId)
       THEN UNCHANGED <<substanceLogs, idCounter, neurotransmitters, lastUpdate,
                        defaultNeurotransmitters>>
       ELSE LET clearanceMs == calculateClearanceTime(substanceId, dosage)
                newLog == [id |-> generateId, substanceId |-> substanceId,
                           dosage |-> dosage, timestamp |-> now,
                           expectedClearance |-> now + clearanceMs]
            \* set() with [...substanceLogs, newLog], then get().updateNTLevels()
            IN /\ idCounter' = idCounter + 1
               /\ updateNTLevels(Append(substanceLogs, newLog))
    /\ UNCHANGED <<now, sleepSchedule, viewMode, advances, call>>

\* set() with the list filtered, then get().updateNTLevels()
removeLog(logId) ==
    /\ updateNTLevels(SelectSeq(substanceLogs, LAMBDA l : l.id # logId))
    /\ UNCHANGED <<now, sleepSchedule, viewMode, idCounter, advances, call>>

\* set() with the empty list, then get().updateNTLevels()
clearLogs ==
    /\ updateNTLevels(<<>>)
    /\ UNCHANGED <<now, sleepSchedule, viewMode, idCounter, advances, call>>

setSleepSchedule(schedule) ==
    /\ sleepSchedule' = schedule
    /\ updateNTLevels(substanceLogs)
    /\ UNCHANGED <<now, viewMode, idCounter, advances, call>>

setViewMode(mode) ==
    /\ viewMode' = mode
    /\ UNCHANGED <<now, defaultNeurotransmitters, neurotransmitters, substanceLogs,
                   sleepSchedule, idCounter, advances, lastUpdate, call>>

\* App: the effect's first call and every firing of the 30 s interval
Tick ==
    /\ updateNTLevels(substanceLogs)
    /\ UNCHANGED <<now, sleepSchedule, viewMode, idCounter, advances, call>>

\* time passing with the store following it: the snapshot is rebuilt as the clock moves,
\* without updateNTLevels being called
Advance_recomputing(d) ==
    /\ advances < MaxAdvances
    /\ now' = now + d
    /\ advances' = advances + 1
    /\ neurotransmitters' = Recompute(substanceLogs, now', getCurrentHour(now'))
    /\ UNCHANGED <<defaultNeurotransmitters, substanceLogs, sleepSchedule,
                   viewMode, idCounter, lastUpdate, call>>

\* time passes between two handlers
Advance(d) ==
    /\ advances < MaxAdvances
    /\ now' = now + d
    /\ advances' = advances + 1
    /\ UNCHANGED <<defaultNeurotransmitters, neurotransmitters, substanceLogs, sleepSchedule,
                   viewMode, idCounter, lastUpdate, call>>

NoCall == [fn |-> "none"]
NoUpdate == [now |-> -1, logs |-> <<>>]

\* the store as create() leaves it, with nothing persisted
InitStore ==
    /\ defaultNeurotransmitters = InitialNeurotransmitters
    /\ neurotransmitters = InitialNeurotransmitters
    /\ substanceLogs = <<>>
    /\ sleepSchedule = [wakeTime |-> "07:00", sleepTime |-> "23:00"]
    /\ viewMode = "simple"
    /\ idCounter = 0
    /\ advances = 0
    /\ lastUpdate = NoUpdate

Init ==
    /\ now \in StartTimes
    /\ InitStore
    /\ call = NoCall

Next ==
    \/ \E id \in LogIds : \E dosage \in LogDoses(id) : logSubstance(id, dosage)
    \/ \E logId \in 1..(idCounter + 1) : removeLog(logId)
    \/ clearLogs
    \/ \E schedule \in SleepSchedules : setSleepSchedule(schedule)
    \/ \E mode \in {"simple", "advanced"} : setViewMode(mode)
    \/ Tick
    \/ \E d \in Deltas : Advance(d)

Spec == Init /\ [][Next]_vars

\* the stored snapshot was computed from the present clock and log list
Fresh == lastUpdate = [now |-> now, logs |-> substanceLogs]

\* ---------------------------------------------------------------- the day: every hour

\* recompute with no logs, at every minute of the day
InitDay ==
    /\ now \in {m * UnitsPerMinute : m \in 0..(24 * 60 - 1)}
    /\ InitStore
    /\ call = NoCall

NextDay ==
    \/ Tick
    \/ clearLogs
    \/ \E schedule \in SleepSchedules : setSleepSchedule(schedule)

SpecDay == InitDay /\ [][NextDay]_vars

\* ---------------------------------------------------------------- calls of the engine's functions

storeVars == <<now, defaultNeurotransmitters, neurotransmitters, substanceLogs, sleepSchedule,
               viewMode, idCounter, advances, lastUpdate>>

InitIdle == now \in StartTimes /\ InitStore

\* substance.getDosePK(dose): doses from below the low anchor to above the high one
DoseMargin == 60
PKDoses(id) == Max(0, AnchorLow(id) - DoseMargin)..(AnchorHigh(id) + DoseMargin)

InitPK ==
    /\ InitIdle
    /\ \E id \in SubstanceIds : \E d \in PKDoses(id) :
          call = [fn |-> "getDosePK", substance |-> id, dose |-> d, done |-> FALSE,
                  result |-> <<>>]

CallGetDosePK ==
    /\ call.fn = "getDosePK" /\ ~call.done
    /\ call' = [call EXCEPT !.done = TRUE, !.result = getDosePK(call.substance, call.dose)]
    /\ UNCHANGED storeVars

SpecPK == InitPK /\ [][CallGetDosePK]_vars

\* getEffectiveness(log, substance, now), as the clock moves past one log
EffLead == 2
EffHorizon == 480
EffSteps == {UnitsPerMinute, 15 * UnitsPerMinute}

NewLog(id, substanceId, dosage, timestamp) ==
    [id |-> id, substanceId |-> substanceId, dosage |-> dosage, timestamp |-> timestamp,
     expectedClearance |-> timestamp + calculateClearanceTime(substanceId, dosage)]

InitEff ==
    /\ InitIdle
    /\ \E id \in SubstanceIds : \E d \in commonDoses(id) :
          call = [fn |-> "getEffectiveness", log |-> NewLog(1, id, d, now),
                  nowMs |-> now - EffLead * UnitsPerMinute, done |-> FALSE, result |-> 0,
                  prevDone |-> FALSE, prevNow |-> 0, prevResult |-> 0]

\* the clock moves on by d and the card is rendered again
CallGetEffectiveness(d) ==
    /\ call.fn = "getEffectiveness"
    /\ call.nowMs + d <= call.log.timestamp + EffHorizon * UnitsPerMinute
    /\ call' = [call EXCEPT
                   !.nowMs = @ + d,
                   !.done = TRUE,
                   !.result = getEffectiveness(call.log, call.log.substanceId, call.nowMs + d),
                   !.prevDone = call.done,
                   !.prevNow = call.nowMs,
                   !.prevResult = call.result]
    /\ UNCHANGED storeVars

SpecEff == InitEff /\ [][\E d \in EffSteps : CallGetEffectiveness(d)]_vars

\* calculateReceptorImpact(interactions, effectivenessPercent): the catalog's interaction
\* lists, and lists that name a receptor more than once
MaxInteractions == 3
ImpactMagnitudes == {0, 40, 60, 100}
ImpactEffectiveness == {0, 1 * EffScale, 50 * EffScale, 100 * EffScale - 1, 100 * EffScale}
ImpactLists ==
    {receptorInteractions(id) : id \in SubstanceIds}
    \cup UNION {[1..n -> {RI(r, "dopamine", "agonist", m) : r \in {"d1", "d2"}, m \in ImpactMagnitudes}] :
                  n \in 0..MaxInteractions}

InitImpact ==
    /\ InitIdle
    /\ \E l \in ImpactLists : \E e \in ImpactEffectiveness :
          call = [fn |-> "calculateReceptorImpact", interactions |-> l,
                  effectivenessPercent |-> e, done |-> FALSE, result |-> <<>>]

CallCalculateReceptorImpact ==
    /\ call.fn = "calculateReceptorImpact" /\ ~call.done
    /\ call' = [call EXCEPT !.done = TRUE,
                            !.result = calculateReceptorImpact(call.interactions,
                                                               call.effectivenessPercent)]
    /\ UNCHANGED storeVars

SpecImpact == InitImpact /\ [][CallCalculateReceptorImpact]_vars

\* calculateTolerance(allLogs, substance, now): a persisted log list of up to MaxTolLogs
\* logs, in the order they were logged, read at TolNow (day 8, 12:00)
MaxTolLogs == 8
TolNow == 8 * UnitsPerDay + 12 * UnitsPerHour
TolSubstances == {"nicotine", "caffeine"}
\* eight days and exactly seven days before TolNow, then the eight calendar days the
\* window of TolNow touches (one of them twice), TolNow being the last
TolTimes ==
    {TolNow - 8 * UnitsPerDay, TolNow - 7 * UnitsPerDay, TolNow - 7 * UnitsPerDay + UnitsPerHour,
     TolNow - 6 * UnitsPerDay, TolNow - 5 * UnitsPerDay, TolNow - 4 * UnitsPerDay,
     TolNow - 4 * UnitsPerDay + UnitsPerHour, TolNow - 3 * UnitsPerDay,
     TolNow - 2 * UnitsPerDay, TolNow - UnitsPerDay, TolNow}

TolDose(id) == IF id = "nicotine" THEN 2 ELSE 100

\* one more log of the persisted list: logged later than those before it
LoadLog(id, t) ==
    /\ call.fn = "none"
    /\ Len(substanceLogs) < MaxTolLogs
    /\ IF substanceLogs = <<>> THEN TRUE ELSE substanceLogs[Len(substanceLogs)].timestamp < t
    /\ substanceLogs' = Append(substanceLogs, NewLog(Len(substanceLogs) + 1, id, TolDose(id), t))
    /\ idCounter' = idCounter + 1
    /\ UNCHANGED <<now, defaultNeurotransmitters, neurotransmitters, sleepSchedule, viewMode,
                   advances, lastUpdate, call>>

\* calculateTolerance filtering and sorting the array it is handed
LogsAfterTolerance_inPlace(logs, substance, nowMs) ==
    SelectSeq(logs, LAMBDA l : l.substanceId = substance /\ l.timestamp > nowMs - 7 * UnitsPerDay)

\* the array handed to calculateTolerance once it has returned: filter returns a new
\* array, and that one is sorted
LogsAfterTolerance(logs, substance, nowMs) == logs

\* SubstanceCard: const tolerance = calculateTolerance(allLogs, substance, now)
SubstanceCard(substance) ==
    /\ call' = [fn |-> "calculateTolerance", substance |-> substance,
                result |-> calculateTolerance(substanceLogs, substance, now)]
    /\ substanceLogs' = LogsAfterTolerance(substanceLogs, substance, now)
    /\ UNCHANGED <<now, defaultNeurotransmitters, neurotransmitters, sleepSchedule, viewMode,
                   idCounter, advances, lastUpdate>>

\* the card rendered once, on a list that was loaded
CallCalculateTolerance(substance) ==
    /\ call.fn = "none"
    /\ SubstanceCard(substance)

NextTol ==
    \/ \E id \in TolSubstances : \E t \in TolTimes : LoadLog(id, t)
    \/ \E id \in TolSubstances : CallCalculateTolerance(id)

\* Date.now() is the system clock, which can be set back: the clock reads TolNow, or three
\* days less although the logs were written up to TolNow
InitTolSkew == now \in {TolNow, TolNow - 3 * UnitsPerDay} /\ InitStore /\ call = NoCall

SpecTolSkew == InitTolSkew /\ [][NextTol]_vars

\* ---------------------------------------------------------------- claims

HasEffects(snapshot) ==
    \E n \in DOMAIN snapshot : \E k \in DOMAIN snapshot[n].receptors :
        snapshot[n].receptors[k].statusEffects # <<>>

(* C1: recompute is idempotent and history-free.  Whenever the stored snapshot was
   computed from the present clock and log list, it is the snapshot built from the
   pristine definitions, that clock and that list, whatever was stored before and however
   many recomputes came before; no receptor holds more StatusEffects than there are
   logs in the list. *)
C1_RecomputeHistoryFree ==
    Fresh =>
        /\ neurotransmitters =
               RecomputeFrom(InitialNeurotransmitters, substanceLogs, now, getCurrentHour(now))
        /\ \A n \in DOMAIN neurotransmitters : \A k \in DOMAIN neurotransmitters[n].receptors :
               Len(neurotransmitters[n].receptors[k].statusEffects) <= Len(substanceLogs)

\* the recompute of a second logSubstance, at a later clock reading than the recompute
\* of the first, which stored another snapshot; the first log has taken effect
C1_Witness ==
    /\ Fresh
    /\ Len(substanceLogs) = 2
    /\ substanceLogs[1].timestamp < now /\ substanceLogs[2].timestamp = now
    /\ HasEffects(neurotransmitters)
    /\ neurotransmitters # RecomputeFrom(InitialNeurotransmitters, <<substanceLogs[1]>>,
                                         substanceLogs[1].timestamp,
                                         getCurrentHour(substanceLogs[1].timestamp))

(* C2: with an empty log list the snapshot is the circadian baseline, at every minute of
   the day: each currentLevel is the system's circadian level at that hour, each status
   is 'stable', each receptor has sensitivity 100 and no StatusEffects. *)
C2_EmptyLogBaseline ==
    (Fresh /\ substanceLogs = <<>>) =>
        \A n \in DOMAIN neurotransmitters :
            LET nt == neurotransmitters[n]
            IN /\ nt.id = InitialNeurotransmitters[n].id
               /\ nt.currentLevel = getLevel(nt.id, getCurrentHour(now))
               /\ nt.currentLevel \in 0..(100 * LevelScale)
               /\ nt.status = "stable"
               /\ \A k \in DOMAIN nt.receptors :
                     /\ nt.receptors[k].sensitivity = 100 * LevelScale
                     /\ nt.receptors[k].statusEffects = <<>>

\* the baseline at 17:30, in the afternoon dip of dopamine
C2_Witness ==
    /\ Fresh /\ substanceLogs = <<>>
    /\ getCurrentHour(now) = 17 * 60 + 30
    /\ neurotransmitters[2].currentLevel < 70 * LevelScale
    /\ neurotransmitters[2].currentLevel > 50 * LevelScale

(* C3: effectiveness is 0 at now = log.timestamp, 100 at now = log.timestamp + peakTime,
   non-decreasing in now from the timestamp to the peak, non-increasing for every later
   now, and always within 0..100. *)
C3_EffectivenessCurve ==
    (call.fn = "getEffectiveness" /\ call.done) =>
        LET t0 == call.log.timestamp
            peak == t0 + getDosePK(call.log.substanceId, call.log.dosage).peakTime * UnitsPerMinute
        IN /\ call.result \in 0..(100 * EffScale)
           /\ call.nowMs = t0 => call.result = 0
           /\ call.nowMs = peak => call.result = 100 * EffScale
           /\ (call.prevDone /\ t0 <= call.prevNow /\ call.nowMs <= peak)
                  => call.prevResult <= call.result
           /\ (call.prevDone /\ peak <= call.prevNow)
                  => call.result <= call.prevResult

\* the reading at the peak, after a reading on the ramp that was lower
C3_Witness ==
    /\ call.fn = "getEffectiveness" /\ call.done /\ call.prevDone
    /\ call.nowMs = call.log.timestamp
                     + getDosePK(call.log.substanceId, call.log.dosage).peakTime * UnitsPerMinute
    /\ call.result = 100 * EffScale
    /\ call.prevNow > call.log.timestamp
    /\ call.prevResult \in 1..(100 * EffScale - 1)

\* every log of the list was created with the clearance of its own dose
ClearanceOfOwnDose ==
    \A i \in DOMAIN substanceLogs :
        LET log == substanceLogs[i]
        IN /\ substanceMapHas(log.substanceId)
           /\ 100 * (log.expectedClearance - log.timestamp)
                  = getDosePK(log.substanceId, log.dosage).halfLife * 43 * UnitsPerHour
           /\ \A j \in DOMAIN substanceLogs : substanceLogs[j].id = log.id => j = i

\* a step leaves every log that stays in the list as it was, and a log that enters the
\* list carries the clock reading of that step
LogsFrozen ==
    \A j \in DOMAIN substanceLogs' :
        IF \E i \in DOMAIN substanceLogs : substanceLogs[i].id = substanceLogs'[j].id
        THEN \E i \in DOMAIN substanceLogs : substanceLogs[i] = substanceLogs'[j]
        ELSE substanceLogs'[j].timestamp = now

(* C4: every log created by logSubstance has expectedClearance = timestamp + 4.3 times
   the half-life resolved at its own dosage, and no later store action (logSubstance,
   removeLog of another log, a tick, setSleepSchedule, setViewMode) changes a log that
   stays in the list. *)
C4_ClearanceFrozen == [](ClearanceOfOwnDose) /\ [][LogsFrozen]_vars

\* the first log, of 100 mg caffeine (half-life 4.8 h, not the reference 5 h), still as created
\* after the clock moved, a second log was added and removed, and a tick recomputed
C4_Witness ==
    /\ idCounter = 2 /\ Len(substanceLogs) = 1 /\ advances >= 1 /\ Fresh
    /\ substanceLogs[1].id = 1
    /\ substanceLogs[1].substanceId = "caffeine" /\ substanceLogs[1].dosage = 100
    /\ substanceLogs[1].timestamp < now
    /\ 100 * (substanceLogs[1].expectedClearance - substanceLogs[1].timestamp)
           = 48 * 43 * UnitsPerHour

\* the logs of the list whose substance acts on the receptor and which are not yet
\* cleared and at least 1% effective at the clock reading
AppliedTo(receptorId) ==
    {i \in DOMAIN substanceLogs :
        /\ substanceLogs[i].expectedClearance > now
        /\ getEffectiveness(substanceLogs[i], substanceLogs[i].substanceId, now) >= 1 * EffScale
        /\ \E x \in DOMAIN receptorInteractions(substanceLogs[i].substanceId) :
               receptorInteractions(substanceLogs[i].substanceId)[x].receptorId = receptorId}

(* C5: recompute applies exactly the logs with expectedClearance > now.  The snapshot is
   the one computed from the list with every log of expectedClearance <= now removed;
   each receptor holds one StatusEffect per log that is not cleared, is effective and
   acts on it, and none for a cleared log; when every log is cleared the snapshot is the
   baseline. *)
C5_OnlyUnclearedLogsApplied ==
    Fresh =>
        LET hour == getCurrentHour(now)
            uncleared == SelectSeq(substanceLogs, LAMBDA l : ~(l.expectedClearance <= now))
        IN /\ neurotransmitters = RecomputeFrom(InitialNeurotransmitters, uncleared, now, hour)
           /\ \A n \in DOMAIN neurotransmitters : \A k \in DOMAIN neurotransmitters[n].receptors :
                  Len(neurotransmitters[n].receptors[k].statusEffects)
                      = Cardinality(AppliedTo(neurotransmitters[n].receptors[k].id))
           /\ uncleared = <<>> =>
                  neurotransmitters = [n \in DOMAIN InitialNeurotransmitters |->
                                          ResetNT(InitialNeurotransmitters[n], hour)]

\* a recompute over a list holding a cleared log that is still more than 1% effective,
\* next to a log that is applied
C5_Witness ==
    /\ Fresh /\ Len(substanceLogs) = 2
    /\ substanceLogs[1].expectedClearance <= now
    /\ getEffectiveness(substanceLogs[1], substanceLogs[1].substanceId, now) >= 1 * EffScale
    /\ substanceLogs[2].expectedClearance > now
    /\ HasEffects(neurotransmitters)

\* low_value + (high_value - low_value) * (dose - low) / (high - low), rounded as the
\* resolver rounds the field
Linear(f, id, dose) ==
    Round([num |-> f.lo * (AnchorHigh(id) - AnchorLow(id)) + (f.hi - f.lo) * (dose - AnchorLow(id)),
           den |-> AnchorHigh(id) - AnchorLow(id)])

(* C6 as stated: the resolver does not clamp t, so for a dose below the low anchor or
   above the high anchor every interpolated field is the linear extrapolation and lies
   outside the interval between the two endpoint values. *)
C6_Extrapolates ==
    (call.fn = "getDosePK" /\ call.done
       /\ (call.dose < AnchorLow(call.substance) \/ call.dose > AnchorHigh(call.substance))) =>
        \A f \in InterpolatedFields(call.substance) :
            /\ call.result[f.field] = Linear(f, call.substance, call.dose)
            /\ (call.result[f.field] < Min(f.lo, f.hi) \/ call.result[f.field] > Max(f.lo, f.hi))

(* C6, amended: the resolver clamps t to [0,1].  Every interpolated field is the low
   endpoint value for a dose at or below the low anchor, the high endpoint value for a
   dose at or above the high anchor, the linear interpolation in between, and so never
   outside the interval between the two endpoint values. *)
C6_ClampsToAnchors ==
    (call.fn = "getDosePK" /\ call.done) =>
        \A f \in InterpolatedFields(call.substance) :
            LET v == call.result[f.field]
            IN /\ call.dose <= AnchorLow(call.substance) => v = f.lo
               /\ call.dose >= AnchorHigh(call.substance) => v = f.hi
               /\ (AnchorLow(call.substance) <= call.dose /\ call.dose <= AnchorHigh(call.substance))
                      => v = Linear(f, call.substance, call.dose)
               /\ Min(f.lo, f.hi) <= v /\ v <= Max(f.lo, f.hi)

\* caffeine at 450 mg, above the 400 mg anchor: half-life 6.5 h, where the extrapolation
\* gives 6.8 h
C6_Witness ==
    /\ call.fn = "getDosePK" /\ call.done
    /\ call.substance = "caffeine" /\ call.dose = 450
    /\ call.result.halfLife = 65
    /\ Linear([field |-> "halfLife", lo |-> 45, hi |-> 65], "caffeine", 450) = 68

\* the logs of the substance whose timestamp lies in the trailing 7 days ending at the
\* clock reading
InWindow(substance) ==
    {i \in DOMAIN substanceLogs :
        /\ substanceLogs[i].substanceId = substance
        /\ substanceLogs[i].timestamp > now - 7 * UnitsPerDay
        /\ substanceLogs[i].timestamp <= now}

DistinctDays(indices) == Cardinality({substanceLogs[i].timestamp \div UnitsPerDay : i \in indices})

\* clamp(100 - distinctDays * toleranceRate, 10, 100) over the in-window logs
ClampedScore(substance) ==
    LET rate == getDosePK(substance, TolDose(substance)).toleranceRate
        days == DistinctDays(InWindow(substance))
    IN Max(10, Min(100, 100 - days * rate))

(* C7: tolerance is clamp(100 - distinctDays * toleranceRate, 10, 100), distinctDays
   being the number of distinct calendar days holding an in-window log of the
   substance; it lies in 10..100, is 100 for an empty history, and is 40 for
   toleranceRate 12 on 5 distinct days. *)
C7_ToleranceFormula ==
    (call.fn = "calculateTolerance") =>
        /\ call.result = ClampedScore(call.substance)
        /\ call.result \in 10..100
        /\ substanceLogs = <<>> => call.result = 100

(* C7, for a history with no log of the substance timestamped later than now: the
   formula of C7 holds. *)
C7_ToleranceFormula_PastLogs ==
    (/\ call.fn = "calculateTolerance"
     /\ \A i \in DOMAIN substanceLogs :
            substanceLogs[i].substanceId = call.substance => substanceLogs[i].timestamp <= now) =>
        /\ call.result = ClampedScore(call.substance)
        /\ call.result \in 10..100
        /\ substanceLogs = <<>> => call.result = 100

\* nicotine (toleranceRate 12) logged six times on 5 distinct days of the window
C7_Witness ==
    /\ call.fn = "calculateTolerance" /\ call.substance = "nicotine"
    /\ Cardinality(InWindow("nicotine")) = 6
    /\ DistinctDays(InWindow("nicotine")) = 5
    /\ call.result = 40

(* C8: tolerance takes into account only the logs of the substance whose timestamp lies
   in the trailing 7 days ending at now: the result is the one computed from those logs
   alone, whatever older logs, logs timestamped later than now and logs of other
   substances the list holds, and it is 100 when no log is in the window. *)
C8_WindowOnly ==
    (call.fn = "calculateTolerance") =>
        LET kept == SelectSeq(substanceLogs,
                              LAMBDA l : /\ l.substanceId = call.substance
                                         /\ l.timestamp > now - 7 * UnitsPerDay
                                         /\ l.timestamp <= now)
        IN /\ call.result = calculateTolerance(kept, call.substance, now)
           /\ kept = <<>> => call.result = 100

\* the sum of magnitude * effectivenessPercent over the interactions on the receptor
RECURSIVE SumOn(_, _, _, _)
SumOn(interactions, effectivenessPercent, receptorId, i) ==
    IF i > Len(interactions) THEN 0
    ELSE (IF interactions[i].receptorId = receptorId
          THEN interactions[i].magnitude * effectivenessPercent ELSE 0)
         + SumOn(interactions, effectivenessPercent, receptorId, i + 1)

(* C9: calculateReceptorImpact returns, for each receptor the interaction list names,
   min(100, sum over the interactions on that receptor of magnitude *
   effectivenessPercent / 100); every returned magnitude is in 0..100, and a receptor
   the list does not name is absent from the mapping. *)
C9_ImpactSumCapped ==
    (call.fn = "calculateReceptorImpact" /\ call.done) =>
        /\ DOMAIN call.result
               = {call.interactions[i].receptorId : i \in DOMAIN call.interactions}
        /\ \A r \in DOMAIN call.result :
               /\ call.result[r] = Min(100 * ImpactScale,
                                       SumOn(call.interactions, call.effectivenessPercent, r, 1))
               /\ call.result[r] \in 0..(100 * ImpactScale)

\* three interactions, two of them on d1 (60 and 60 at 100%: capped at 100) and one on
\* d2 (40), so that d1 is capped, d2 is not, and nothing else is in the mapping
C9_Witness ==
    /\ call.fn = "calculateReceptorImpact" /\ call.done
    /\ Len(call.interactions) = 3
    /\ call.effectivenessPercent = 100 * EffScale
    /\ DOMAIN call.result = {"d1", "d2"}
    /\ call.result["d1"] = 100 * ImpactScale
    /\ SumOn(call.interactions, call.effectivenessPercent, "d1", 1) = 120 * ImpactScale
    /\ call.result["d2"] = 40 * ImpactScale

\* log i is applied by the recompute: not cleared, and at least 1% effective
Effective(i) ==
    /\ substanceLogs[i].expectedClearance > now
    /\ getEffectiveness(substanceLogs[i], substanceLogs[i].substanceId, now) >= 1 * EffScale

\* the interactions of the substance of log i on the receptor
InteractionsOn(i, receptorId) ==
    LET ints == receptorInteractions(substanceLogs[i].substanceId)
    IN {ints[x] : x \in {y \in DOMAIN ints : ints[y].receptorId = receptorId}}

\* the impact of log i on the receptor: min(100, magnitude * effectiveness / 100)
ImpactOf(i, receptorId) ==
    LET x == CHOOSE y \in InteractionsOn(i, receptorId) : TRUE
    IN Min(100 * ImpactScale,
           x.magnitude * getEffectiveness(substanceLogs[i], substanceLogs[i].substanceId, now))

\* the StatusEffect log i leaves on the receptor
EffectOf(i, receptorId) ==
    LET x == CHOOSE y \in InteractionsOn(i, receptorId) : TRUE
    IN [type |-> x.type, source |-> SubstanceName(substanceLogs[i].substanceId),
        magnitude |-> ImpactOf(i, receptorId), startTime |-> substanceLogs[i].timestamp]

\* logs i < j of two different substances are the logs the recompute applies, and both
\* substances have an agonist or precursor interaction on the receptor
TwoAgonistsOn(i, j, receptorId) ==
    /\ i < j
    /\ {x \in DOMAIN substanceLogs : Effective(x)} = {i, j}
    /\ substanceLogs[i].substanceId # substanceLogs[j].substanceId
    /\ \E x \in InteractionsOn(i, receptorId) : x.type \in {"agonist", "precursor"}
    /\ \E x \in InteractionsOn(j, receptorId) : x.type \in {"agonist", "precursor"}

\* what log i adds to the level of a system, over all of the system's receptors:
\* 0.3 of each agonist or precursor impact, 0.15 of each modulation impact
RECURSIVE LevelShift(_, _, _)
LevelShift(i, receptors, k) ==
    IF k > Len(receptors) THEN 0
    ELSE (IF InteractionsOn(i, receptors[k].id) = {} THEN 0
          ELSE LET type == EffectOf(i, receptors[k].id).type
               IN IF type \in {"agonist", "precursor"} THEN 30 * ImpactOf(i, receptors[k].id)
                  ELSE IF type = "modulation" THEN 15 * ImpactOf(i, receptors[k].id)
                  ELSE 0)
         + LevelShift(i, receptors, k + 1)

(* C10 as stated: when two different active substances, both at least 1% effective, each
   have an agonist or precursor interaction on the same receptor, the receptor holds
   exactly two StatusEffects, one per substance in log order, and the owning system's
   currentLevel is its circadian level plus 0.3 times the sum of the two impacts on that
   receptor, clamped to 100. *)
C10_TwoImpactsOnly ==
    Fresh =>
        \A n \in DOMAIN neurotransmitters : \A k \in DOMAIN neurotransmitters[n].receptors :
        \A i, j \in DOMAIN substanceLogs :
            LET nt == neurotransmitters[n]
                r == nt.receptors[k]
            IN TwoAgonistsOn(i, j, r.id) =>
                  /\ r.statusEffects = <<EffectOf(i, r.id), EffectOf(j, r.id)>>
                  /\ nt.currentLevel =
                         Min(100 * LevelScale,
                             getLevel(nt.id, getCurrentHour(now))
                                 + 30 * (ImpactOf(i, r.id) + ImpactOf(j, r.id)))

(* C10, amended: in that case the receptor holds exactly two StatusEffects, one per
   substance in log order, neither capped by the other, and the owning system's
   currentLevel is its circadian level plus 0.3 times the sum of every agonist or
   precursor impact the two substances have on any receptor of that system (and 0.15
   times their modulation impacts there), clamped to 100. *)
C10_NoCrossSubstanceCap ==
    Fresh =>
        \A n \in DOMAIN neurotransmitters : \A k \in DOMAIN neurotransmitters[n].receptors :
        \A i, j \in DOMAIN substanceLogs :
            LET nt == neurotransmitters[n]
                r == nt.receptors[k]
            IN TwoAgonistsOn(i, j, r.id) =>
                  /\ r.statusEffects = <<EffectOf(i, r.id), EffectOf(j, r.id)>>
                  /\ nt.currentLevel =
                         Min(100 * LevelScale,
                             getLevel(nt.id, getCurrentHour(now))
                                 + LevelShift(i, nt.receptors, 1) + LevelShift(j, nt.receptors, 1))
                  /\ nt.status = "enhanced"

\* nicotine then flmodafinil, both applied, both agonists on d1: dopamine below the
\* clamp, and above what the two d1 impacts alone account for
C10_Witness ==
    /\ Fresh /\ Len(substanceLogs) = 2
    /\ substanceLogs[1].substanceId = "nicotine" /\ substanceLogs[2].substanceId = "flmodafinil"
    /\ TwoAgonistsOn(1, 2, "d1")
    /\ Len(neurotransmitters[2].receptors[1].statusEffects) = 2
    /\ neurotransmitters[2].currentLevel < 100 * LevelScale
    /\ neurotransmitters[2].currentLevel >
           getLevel("dopamine", getCurrentHour(now)) + 30 * (ImpactOf(1, "d1") + ImpactOf(2, "d1"))

\* ---------------------------------------------------------------- a stored list, every hour

\* persist: the log list comes back from storage before the first recompute.  Up to
\* MaxRangeLogs logs, each of a substance that is at its peak when the clock is read, in
\* the order they were logged, at every half hour of the day
MaxRangeLogs == 6
RangeIds == {"bromantane", "nicotine", "caffeine", "l-theanine"}
RangeHours == {UnitsPerDay + h * 30 * UnitsPerMinute : h \in 0..47}

\* the time a log of the substance was written for it to peak now
PeakStart(id) ==
    now - getDosePK(id, CHOOSE d \in LogDoses(id) : TRUE).peakTime * UnitsPerMinute

RestoreAtPeak(id) ==
    /\ lastUpdate = NoUpdate
    /\ Len(substanceLogs) < MaxRangeLogs
    /\ IF substanceLogs = <<>> THEN TRUE
       ELSE substanceLogs[Len(substanceLogs)].timestamp <= PeakStart(id)
    /\ substanceLogs' = Append(substanceLogs,
                               NewLog(Len(substanceLogs) + 1, id,
                                      CHOOSE d \in LogDoses(id) : TRUE, PeakStart(id)))
    /\ idCounter' = idCounter + 1
    /\ UNCHANGED <<now, defaultNeurotransmitters, neurotransmitters, sleepSchedule, viewMode,
                   advances, lastUpdate, call>>

InitRange == now \in RangeHours /\ InitStore /\ call = NoCall

NextRange ==
    \/ \E id \in RangeIds : RestoreAtPeak(id)
    \/ Tick

SpecRange == InitRange /\ [][NextRange]_vars

(* C11: in every snapshot a recompute stores, at any hour and for any log list, every
   currentLevel is in 0..100, every receptor's sensitivity in 20..150, every receptor's
   occupancy in 0..100, and every StatusEffect magnitude in 0..100. *)
C11_SnapshotRanges ==
    lastUpdate # NoUpdate =>
        \A n \in DOMAIN neurotransmitters :
            /\ neurotransmitters[n].currentLevel \in 0..(100 * LevelScale)
            /\ \A k \in DOMAIN neurotransmitters[n].receptors :
                  LET r == neurotransmitters[n].receptors[k]
                  IN /\ r.sensitivity \in (20 * LevelScale)..(150 * LevelScale)
                     /\ r.occupancy \in 0..(100 * LevelScale)
                     /\ \A e \in DOMAIN r.statusEffects :
                           r.statusEffects[e].magnitude \in 0..(100 * ImpactScale)

\* six bromantane logs at their peak: six upregulations of 50 * 0.2 on d1 stop at 150
C11_Witness ==
    /\ Fresh /\ Len(substanceLogs) = 6
    /\ \A i \in DOMAIN substanceLogs : substanceLogs[i].substanceId = "bromantane"
    /\ Len(neurotransmitters[2].receptors[1].statusEffects) = 6
    /\ neurotransmitters[2].receptors[1].sensitivity = 150 * LevelScale
    /\ \A e \in 1..6 : neurotransmitters[2].receptors[1].statusEffects[e].magnitude = 50 * ImpactScale

\* ---------------------------------------------------------------- a stored list, any log

\* persist: a stored list of up to MaxStoredLogs logs, in the order they were logged.  A
\* log is of a catalog substance or of one the catalog no longer has, and was written an
\* hour or a quarter of an hour before the clock reading, or an hour after it (the clock
\* was set back since)
MaxStoredLogs == 3
StoredOffsets == {0 - UnitsPerHour, 0 - 15 * UnitsPerMinute, UnitsPerHour}

\* a stored log: of a catalog substance as logSubstance wrote it, of another substance
\* with the clearance an earlier catalog gave it
StoredLog(id, substanceId, timestamp) ==
    IF substanceMapHas(substanceId)
    THEN NewLog(id, substanceId, CHOOSE d \in LogDoses(substanceId) : TRUE, timestamp)
    ELSE [id |-> id, substanceId |-> substanceId, dosage |-> 1, timestamp |-> timestamp,
          expectedClearance |-> timestamp + 5 * UnitsPerHour]

RestoreLog(substanceId, offset) ==
    /\ lastUpdate = NoUpdate
    /\ Len(substanceLogs) < MaxStoredLogs
    /\ IF substanceLogs = <<>> THEN TRUE
       ELSE substanceLogs[Len(substanceLogs)].timestamp <= now + offset
    /\ substanceLogs' = Append(substanceLogs,
                               StoredLog(Len(substanceLogs) + 1, substanceId, now + offset))
    /\ idCounter' = idCounter + 1
    /\ UNCHANGED <<now, defaultNeurotransmitters, neurotransmitters, sleepSchedule, viewMode,
                   advances, lastUpdate, call>>

NextStored ==
    \/ \E id \in LogIds : \E offset \in StoredOffsets : RestoreLog(id, offset)
    \/ Tick

InitStored == InitIdle /\ call = NoCall

SpecStored == InitStored /\ [][NextStored]_vars

(* C12: a log whose substanceId is not in the catalog is skipped silently.  The recompute
   completes, and its snapshot is the one computed from the list with every such log
   removed, wherever in the list those logs sit. *)
C12_UnknownSubstanceSkipped ==
    Fresh =>
        LET known == SelectSeq(substanceLogs, LAMBDA l : l.substanceId \in SubstanceIds)
        IN neurotransmitters = RecomputeFrom(InitialNeurotransmitters, known, now,
                                             getCurrentHour(now))

\* an uncleared log of an unknown substance between two catalog logs that take effect
C12_Witness ==
    /\ Fresh /\ Len(substanceLogs) = 3
    /\ substanceLogs[2].substanceId \notin SubstanceIds
    /\ substanceLogs[2].timestamp < now /\ substanceLogs[2].expectedClearance > now
    /\ substanceLogs[1].substanceId = "nicotine" /\ substanceLogs[3].substanceId = "l-tyrosine"
    /\ Len(neurotransmitters[2].receptors[1].statusEffects) = 2

(* C14: for a log whose timestamp is later than now, effectiveness is 0, for every
   substance; such a log contributes nothing to the snapshot even when it is selected as
   active: the snapshot is the one computed from the list without the future-dated
   logs. *)
C14_FutureLogInert ==
    /\ \A i \in DOMAIN substanceLogs :
          (substanceLogs[i].timestamp > now /\ substanceLogs[i].substanceId \in SubstanceIds)
              => getEffectiveness(substanceLogs[i], substanceLogs[i].substanceId, now) = 0
    /\ Fresh =>
          LET past == SelectSeq(substanceLogs, LAMBDA l : l.timestamp <= now)
          IN neurotransmitters = RecomputeFrom(InitialNeurotransmitters, past, now,
                                               getCurrentHour(now))

\* a nicotine log dated an hour ahead, selected as active, after a caffeine log that
\* takes effect: only the caffeine log leaves StatusEffects
C14_Witness ==
    /\ Fresh /\ Len(substanceLogs) = 2
    /\ substanceLogs[1].substanceId = "caffeine" /\ substanceLogs[1].timestamp < now
    /\ substanceLogs[2].substanceId = "nicotine" /\ substanceLogs[2].timestamp > now
    /\ substanceLogs[2].expectedClearance > now
    /\ Len(neurotransmitters[1].receptors[1].statusEffects) = 1
    /\ neurotransmitters[2].receptors[1].statusEffects = <<>>

\* ---------------------------------------------------------------- logSubstance, any dosage

\* logSubstance is called with the card's dose, with 0 and with a negative dosage
FormDoses(id) == LogDoses(id) \cup {0, 0 - 50}

NextForm ==
    \/ \E id \in LogIds : \E dosage \in FormDoses(id) : logSubstance(id, dosage)
    \/ \E logId \in 1..(idCounter + 1) : removeLog(logId)
    \/ Tick
    \/ \E d \in Deltas : Advance(d)

SpecForm == Init /\ [][NextForm]_vars

(* C13: a malformed log is rejected when it is constructed and never enters the log
   list: logSubstance called with a non-positive dosage adds no log, so every log of
   the list has a positive dosage. *)
C13_MalformedRejected ==
    \A i \in DOMAIN substanceLogs : substanceLogs[i].dosage > 0

\* ---------------------------------------------------------------- kinetics, any peak time

\* the kinetics getEffectiveness is handed: peak times of 0 and more, half-lives as the
\* catalog's
PeakTimes == {0, 1, 30}
HalfLives == {11, 20, 48, 110}
PeakHorizon == 480

InitPeak ==
    /\ InitIdle
    /\ \E peak \in PeakTimes : \E hl \in HalfLives :
          call = [fn |-> "effectivenessAt", pk |-> PK(hl, 0, peak, 2 * hl, 1),
                  elapsed |-> 0 - EffLead * UnitsPerMinute, done |-> FALSE, result |-> 0,
                  prevDone |-> FALSE, prevElapsed |-> 0, prevResult |-> 0]

\* the clock moves on by d and the effectiveness is read again
CallEffectivenessAt(d) ==
    /\ call.fn = "effectivenessAt"
    /\ call.elapsed + d <= PeakHorizon * UnitsPerMinute
    /\ call' = [call EXCEPT
                   !.elapsed = @ + d,
                   !.done = TRUE,
                   !.result = effectivenessAt(call.pk, call.elapsed + d),
                   !.prevDone = call.done,
                   !.prevElapsed = call.elapsed,
                   !.prevResult = call.result]
    /\ UNCHANGED storeVars

SpecPeak == InitPeak /\ [][\E d \in EffSteps : CallEffectivenessAt(d)]_vars

\* C15: with peakTime = 0 the effectiveness is 100 at elapsed 0 (a number: nothing is
\* divided by the peak), and for elapsed > 0 it is the decay of 100 over the whole elapsed
\* time: never above 100, never rising, half of 100 after one half-life.
C15_ZeroPeakTime ==
    (call.fn = "effectivenessAt" /\ call.done /\ call.pk.peakTime = 0) =>
        /\ call.result \in 0..(100 * EffScale)
        /\ call.elapsed = 0 => call.result = 100 * EffScale
        /\ call.elapsed > 0 =>
              call.result = calculateDecay(100 * EffScale, call.pk.halfLife, call.elapsed)
        /\ (call.elapsed * 10 = call.pk.halfLife * UnitsPerHour) =>
              call.result = 50 * EffScale
        /\ (call.prevDone /\ call.prevElapsed >= 0) => call.result <= call.prevResult

\* peakTime 0, read at the moment of logging and again one half-life later
C15_Witness ==
    /\ call.fn = "effectivenessAt" /\ call.done
    /\ call.pk.peakTime = 0 /\ call.pk.halfLife = 11
    /\ call.elapsed = 66 * UnitsPerMinute /\ call.result = 50 * EffScale
    /\ call.prevDone /\ call.prevResult > call.result

\* ---------------------------------------------------------------- generateTimeline

\* the points of a timeline that are kept track of: a loop that has not ended by then goes
\* on, and only the parity of its passes is followed
\* (the longest timeline drawn below, 24 h at 6 min, has 241 points)
MaxPoints == 250
\* intervalMinutes: the default of 15, divisors and non-divisors of the durations, a value
\* longer than every duration, and the two that are not positive
Intervals == {0 - 15, 0, 6, 15, 45, 60, 1500}

\* pk.duration * 60, duration in tenths of an hour
totalMinutes(log) == getDosePK(log.substanceId, log.dosage).duration * 6

InitTimeline ==
    /\ InitIdle
    /\ \E id \in SubstanceIds : \E d \in LogDoses(id) : \E interval \in Intervals :
          call = [fn |-> "generateTimeline", log |-> NewLog(1, id, d, now),
                  intervalMinutes |-> interval, m |-> 0, points |-> <<>>, passes |-> 0,
                  done |-> FALSE]

\* one pass of the for loop: m <= totalMinutes, the point is pushed, m += intervalMinutes
TimelineStep ==
    /\ call.fn = "generateTimeline" /\ ~call.done
    /\ call.m <= totalMinutes(call.log)
    /\ LET timeMs == call.log.timestamp + call.m * UnitsPerMinute
           level == getEffectiveness(call.log, call.log.substanceId, timeMs)
       IN IF Len(call.points) < MaxPoints
          THEN call' = [call EXCEPT !.points = Append(@, [time |-> timeMs, level |-> level]),
                                    !.m = @ + call.intervalMinutes,
                                    !.passes = 1 - @]
          \* beyond MaxPoints: m still rises with a positive interval; one that stays or
          \* falls is left where it is, below totalMinutes
          ELSE call' = [call EXCEPT !.m = IF call.intervalMinutes > 0
                                          THEN @ + call.intervalMinutes ELSE @,
                                    !.passes = 1 - @]
    /\ UNCHANGED storeVars

\* the loop condition fails: return points
TimelineReturn ==
    /\ call.fn = "generateTimeline" /\ ~call.done
    /\ call.m > totalMinutes(call.log)
    /\ call' = [call EXCEPT !.done = TRUE]
    /\ UNCHANGED storeVars

NextTimeline == TimelineStep \/ TimelineReturn

SpecTimeline == InitTimeline /\ [][NextTimeline]_vars

\* the loop is not held up: a pass that can run does run
SpecTimelineFair == SpecTimeline /\ WF_vars(NextTimeline)

\* C16: for every positive intervalMinutes the returned timeline starts at log.timestamp,
\* ends at log.timestamp + duration * 60 min, and its points are strictly increasing,
\* intervalMinutes apart.
C16_BothEndsSampled ==
    (call.fn = "generateTimeline" /\ call.done /\ call.intervalMinutes > 0) =>
        LET points == call.points
        IN /\ Len(points) >= 1
           /\ points[1].time = call.log.timestamp
           /\ points[Len(points)].time =
                 call.log.timestamp + totalMinutes(call.log) * UnitsPerMinute
           /\ \A i \in 1..(Len(points) - 1) :
                 points[i + 1].time = points[i].time + call.intervalMinutes * UnitsPerMinute

\* C17: generateTimeline returns, whatever intervalMinutes it is called with.
C17_TimelineTerminates == <>(call.fn = "generateTimeline" /\ call.done)

\* ---------------------------------------------------------------- what the engine writes

\* the substances logged and rendered while the frame is watched
ReadIds == {"caffeine", "nicotine", "melatonin"}

NextRead ==
    \/ \E id \in ReadIds : \E dosage \in LogDoses(id) : logSubstance(id, dosage)
    \/ \E logId \in 1..(idCounter + 1) : removeLog(logId)
    \/ Tick
    \/ \E id \in ReadIds \cap SubstanceIds : SubstanceCard(id)
    \/ \E d \in Deltas : Advance(d)

SpecRead == Init /\ [][NextRead]_vars

\* a recompute ran in this step
Recomputed == lastUpdate' # lastUpdate \/ neurotransmitters' # neurotransmitters

\* C18: the engine only reads its inputs.  The default definitions keep their initial
\* values after any number of recomputes; a recompute leaves the log list as it read it,
\* elements and order, and builds its snapshot from the definitions alone, not from the
\* snapshot before; calculateTolerance leaves the log list as it was handed.
C18_EngineOnlyReads ==
    /\ [](defaultNeurotransmitters = InitialNeurotransmitters)
    /\ [][/\ Recomputed =>
               /\ substanceLogs' = lastUpdate'.logs
               /\ neurotransmitters' = RecomputeFrom(InitialNeurotransmitters, lastUpdate'.logs,
                                                     now', getCurrentHour(now'))
          /\ (call' # call) => substanceLogs' = substanceLogs]_vars

\* two logs, one of them cleared ten hours on: the snapshot carries effects the
\* definitions do not, the tolerance of the other substance was read, the list is whole
C18_Witness ==
    /\ Fresh /\ advances = 1
    /\ Len(substanceLogs) = 2
    /\ substanceLogs[1].substanceId = "nicotine" /\ substanceLogs[1].expectedClearance <= now
    /\ substanceLogs[2].substanceId = "caffeine"
    /\ HasEffects(neurotransmitters) /\ ~HasEffects(defaultNeurotransmitters)
    /\ call.fn = "calculateTolerance" /\ call.substance = "caffeine" /\ call.result < 100

\* ---------------------------------------------------------------- the handlers, step by step

\* The handlers of the store and the interval's callback taken apart at their calls of
\* set() and get(), to see what can run between two of them.  call holds the two callbacks
\* that can be under way: the one a user action started and the one the interval started.
LoopIds == {"caffeine", "nicotine"}

IdleHandler == [pc |-> "idle", now |-> 0, logs |-> <<>>]

\* a callback that starts does so on an empty stack, as if the runtime could run one
\* callback in the middle of another
EventLoopIdle_preemptive == TRUE

\* a callback starts when the stack is empty: the handlers and updateNTLevels are
\* synchronous functions, and setInterval queues its callback as a task of its own
EventLoopIdle == call.user.pc = "idle" /\ call.tick.pc = "idle"

InitLoop ==
    /\ InitIdle
    /\ call = [fn |-> "handlers", user |-> IdleHandler, tick |-> IdleHandler]

\* a user action up to and including its set(); get().updateNTLevels() comes next
UserSet(logs, schedule, counter) ==
    /\ call.fn = "handlers" /\ call.user.pc = "idle"
    /\ EventLoopIdle
    /\ substanceLogs' = logs
    /\ sleepSchedule' = schedule
    /\ idCounter' = counter
    /\ call' = [call EXCEPT !.user.pc = "update"]
    /\ UNCHANGED <<now, defaultNeurotransmitters, neurotransmitters, viewMode, advances,
                   lastUpdate>>

LogSubstanceSet(substanceId, dosage) ==
    /\ idCounter < MaxLogs
    /\ substanceMapHas(substanceId)
    /\ UserSet(Append(substanceLogs, NewLog(generateId, substanceId, dosage, now)),
               sleepSchedule, idCounter + 1)

RemoveLogSet(logId) ==
    UserSet(SelectSeq(substanceLogs, LAMBDA l : l.id # logId), sleepSchedule, idCounter)

ClearLogsSet == UserSet(<<>>, sleepSchedule, idCounter)

SetSleepScheduleSet(schedule) == UserSet(substanceLogs, schedule, idCounter)

\* updateNTLevels, first lines: const { substanceLogs } = get(); const now = Date.now()
UpdateRead == [pc |-> "write", now |-> now, logs |-> substanceLogs]

UserUpdateRead ==
    /\ call.fn = "handlers" /\ call.user.pc = "update"
    /\ call' = [call EXCEPT !.user = UpdateRead]
    /\ UNCHANGED storeVars

\* the interval fires: updateNTLevels starts
TickRead ==
    /\ call.fn = "handlers" /\ call.tick.pc = "idle"
    /\ EventLoopIdle
    /\ call' = [call EXCEPT !.tick = UpdateRead]
    /\ UNCHANGED storeVars

\* updateNTLevels, last line: set({ neurotransmitters: updated })
UpdateWrite(slot) ==
    /\ call.fn = "handlers" /\ call[slot].pc = "write"
    /\ neurotransmitters' = Recompute(call[slot].logs, call[slot].now,
                                      getCurrentHour(call[slot].now))
    /\ lastUpdate' = [now |-> call[slot].now, logs |-> call[slot].logs]
    /\ call' = [call EXCEPT ![slot] = IdleHandler]
    /\ UNCHANGED <<now, defaultNeurotransmitters, substanceLogs, sleepSchedule, viewMode,
                   idCounter, advances>>

NextLoop ==
    \/ \E id \in LoopIds : \E dosage \in LogDoses(id) : LogSubstanceSet(id, dosage)
    \/ \E logId \in 1..(idCounter + 1) : RemoveLogSet(logId)
    \/ ClearLogsSet
    \/ \E schedule \in SleepSchedules : SetSleepScheduleSet(schedule)
    \/ UserUpdateRead
    \/ TickRead
    \/ UpdateWrite("user")
    \/ UpdateWrite("tick")
    \/ \E d \in Deltas : Advance(d)

SpecLoop == InitLoop /\ [][NextLoop]_vars

\* no callback is under way
NoHandlerRunning == call.user.pc = "idle" /\ call.tick.pc = "idle"

\* C19: the recomputes of the tick and of the user actions are serialized.  Every snapshot
\* that is stored was computed from the log list as the store holds it at that moment, the
\* list nothing has touched since the recompute read it; and whenever no handler is under
\* way, the stored snapshot is the recompute of the log list as it is now.
C19_RecomputesSerialized ==
    /\ [][(lastUpdate' # lastUpdate) =>
             (lastUpdate'.logs = substanceLogs /\ substanceLogs' = substanceLogs)]_vars
    /\ [](NoHandlerRunning =>
             \/ lastUpdate = NoUpdate /\ substanceLogs = <<>>
             \/ /\ lastUpdate.logs = substanceLogs
                /\ neurotransmitters =
                      RecomputeFrom(InitialNeurotransmitters, substanceLogs, lastUpdate.now,
                                    getCurrentHour(lastUpdate.now)))

\* two logs, the first removed, a changed schedule, and the tick after the clock moved on:
\* the handlers are done, and the snapshot is the tick's, from the one log that is left
C19_Witness ==
    /\ call.fn = "handlers" /\ NoHandlerRunning
    /\ idCounter = 2 /\ Len(substanceLogs) = 1 /\ substanceLogs[1].id = 2
    /\ sleepSchedule.wakeTime = "09:30"
    /\ advances = 1 /\ substanceLogs[1].timestamp < now
    /\ Fresh /\ HasEffects(neurotransmitters)

\* ---------------------------------------------------------------- the two level curves

\* calculateActiveLevel(dose, pk, elapsedMinutes), in hundredths of the dose's unit;
\* elapsed in units.  progress * (peakMin / onsetMin) is elapsedMinutes / onsetMin.
calculateActiveLevel(dose, pk, elapsed) ==
    LET onset == pk.onsetTime * UnitsPerMinute
        peak == pk.peakTime * UnitsPerMinute
    IN IF elapsed < 0 THEN 0
       ELSE IF elapsed <= peak
            THEN IF peak = 0 THEN dose * EffScale
                 ELSE IF onset > 0
                      THEN (dose * SinHalfPi(Min(elapsed, onset), onset)) \div 100
                      ELSE (dose * EffScale * elapsed) \div peak
            ELSE calculateDecay(dose * EffScale, pk.halfLife, elapsed - peak)

InitLevel ==
    /\ InitIdle
    /\ \E id \in SubstanceIds : \E d \in commonDoses(id) :
          call = [fn |-> "calculateActiveLevel", log |-> NewLog(1, id, d, now),
                  elapsed |-> 0 - EffLead * UnitsPerMinute, done |-> FALSE,
                  level |-> 0, effectiveness |-> 0]

\* both curves read at the same moment, d later than the last time
CallCalculateActiveLevel(d) ==
    /\ call.fn = "calculateActiveLevel"
    /\ call.elapsed + d <= EffHorizon * UnitsPerMinute
    /\ LET log == call.log
           pk == getDosePK(log.substanceId, log.dosage)
       IN call' = [call EXCEPT
                      !.elapsed = @ + d,
                      !.done = TRUE,
                      !.level = calculateActiveLevel(100, pk, call.elapsed + d),
                      !.effectiveness = getEffectiveness(log, log.substanceId,
                                                         log.timestamp + call.elapsed + d)]
    /\ UNCHANGED storeVars

SpecLevel == InitLevel /\ [][\E d \in EffSteps : CallCalculateActiveLevel(d)]_vars

\* C20: one onset ramp in every path: calculateActiveLevel(100, pk, elapsedMinutes) is
\* getEffectiveness of a log of that dose at the same elapsed time.
C20_SingleRampFormula ==
    (call.fn = "calculateActiveLevel" /\ call.done) => call.level = call.effectiveness

\* ---------------------------------------------------------------- calculateDecay

\* the amounts calculateDecay is called with, in hundredths
DecayDoses == {1 * EffScale, 100 * EffScale, 200 * EffScale}

InitDecay ==
    /\ InitIdle
    /\ \E dose \in DecayDoses : \E hl \in HalfLives :
          call = [fn |-> "calculateDecay", dose |-> dose, halfLife |-> hl,
                  elapsed |-> 0 - EffLead * UnitsPerMinute, done |-> FALSE, result |-> 0,
                  prevDone |-> FALSE, prevElapsed |-> 0, prevResult |-> 0]

\* calculateDecay read d later than the last time
CallCalculateDecay(d) ==
    /\ call.fn = "calculateDecay"
    /\ call.elapsed + d <= EffHorizon * UnitsPerMinute
    /\ call' = [call EXCEPT
                   !.elapsed = @ + d,
                   !.done = TRUE,
                   !.result = calculateDecay(call.dose, call.halfLife, call.elapsed + d),
                   !.prevDone = call.done,
                   !.prevElapsed = call.elapsed,
                   !.prevResult = call.result]
    /\ UNCHANGED storeVars

SpecDecay == InitDecay /\ [][\E d \in EffSteps : CallCalculateDecay(d)]_vars

\* C21: calculateDecay is 0 before the dose and amount * 0.5^(elapsed / halfLife) from
\* then on: the amount itself at elapsed 0, half of it after one half-life (50 of 100),
\* amount / 2^n after n half-lives and between amount / 2^(n+1) and amount / 2^n within
\* the next one (up to the rounding of the last digit), and never rising.
C21_DecayContract ==
    (call.fn = "calculateDecay" /\ call.done) =>
        LET h == (call.halfLife * UnitsPerHour) \div 10
            n == call.elapsed \div h
        IN /\ call.elapsed < 0 => call.result = 0
           /\ call.elapsed = 0 => call.result = call.dose
           /\ (call.elapsed = h /\ call.dose = 100 * EffScale) => call.result = 50 * EffScale
           /\ call.elapsed >= 0 =>
                 /\ call.result <= call.dose \div Pow2(n)
                 /\ call.result >= call.dose \div Pow2(n + 1) - call.dose \div 10000 - 1
           /\ (call.elapsed >= 0 /\ call.elapsed % h = 0 /\ call.dose % Pow2(n) = 0 /\ n <= 4) =>
                 call.result = call.dose \div Pow2(n)
           /\ (call.prevDone /\ call.prevElapsed >= 0) => call.result <= call.prevResult

\* 100 with a half-life of 2 h, read after 4 h: a quarter is left, less than a minute ago
C21_Witness ==
    /\ call.fn = "calculateDecay" /\ call.done
    /\ call.dose = 100 * EffScale /\ call.halfLife = 20
    /\ call.elapsed = 4 * UnitsPerHour /\ call.result = 25 * EffScale
    /\ call.prevDone /\ call.prevResult > call.result

\* ---------------------------------------------------------------- what is left at clearance

InitClearance ==
    /\ InitIdle
    /\ \E id \in SubstanceIds : \E d \in PKDoses(id) :
          call = [fn |-> "getEffectiveness", log |-> NewLog(1, id, d, now),
                  nowMs |-> now, done |-> FALSE, result |-> 0]

\* the log read at the instant its expectedClearance names
CallAtClearance ==
    /\ call.fn = "getEffectiveness" /\ ~call.done
    /\ call' = [call EXCEPT
                   !.nowMs = call.log.expectedClearance,
                   !.done = TRUE,
                   !.result = getEffectiveness(call.log, call.log.substanceId,
                                               call.log.expectedClearance)]
    /\ UNCHANGED storeVars

SpecClearance == InitClearance /\ [][CallAtClearance]_vars

\* C22: at a log's expectedClearance less than 5% of the dose is left:
\* getEffectiveness(log, substance, log.expectedClearance) < 5.
C22_UnderFivePercentAtClearance ==
    (call.fn = "getEffectiveness" /\ call.done /\ call.nowMs = call.log.expectedClearance) =>
        call.result < 5 * EffScale

\* ---------------------------------------------------------------- the switch, any type

\* The catalog holds no downregulation and no neurotransmitter with both an antagonist and
\* a modulation, so the rules are run on interaction lists drawn over all the types, on
\* the dopamine record as the outer map builds it.
MaxApplied == 2
InteractionTypes == {"agonist", "precursor", "antagonist", "upregulation", "downregulation",
                     "modulation"}
ProbeMagnitude == 40

\* the interaction lists of the substances applied: one interaction on d1 or d2, or one on
\* each, listed in either order
ProbeInteractions ==
    LET one == {<<RI(r, "dopamine", t, ProbeMagnitude)>> : r \in {"d1", "d2"},
                                                            t \in InteractionTypes}
        two == {<<RI(r[1], "dopamine", t1, ProbeMagnitude),
                  RI(r[2], "dopamine", t2, ProbeMagnitude)>> :
                    r \in {<<"d1", "d2">>, <<"d2", "d1">>},
                    t1 \in InteractionTypes, t2 \in InteractionTypes}
    IN one \cup two

\* for (const receptor of nt.receptors), for any interaction list
RECURSIVE RuleLoop(_, _, _, _, _, _)
RuleLoop(nt, k, interactions, source, impacts, log) ==
    IF k > Len(nt.receptors) THEN nt
    ELSE RuleLoop(ApplyRule(nt, k, interactions, source, impacts, log), k + 1,
                  interactions, source, impacts, log)

InitStatus ==
    /\ InitIdle
    /\ call = [fn |-> "updateNTLevels",
               nt |-> ResetNT(InitialNeurotransmitters[2], getCurrentHour(now)),
               applied |-> <<>>]

\* one more pass of the loop over activeLogs, for a log at its peak
ApplyProbe(interactions) ==
    /\ call.fn = "updateNTLevels"
    /\ Len(call.applied) < MaxApplied
    /\ LET log == [id |-> Len(call.applied) + 1, timestamp |-> now]
           impacts == calculateReceptorImpact(interactions, 100 * EffScale)
       IN call' = [call EXCEPT
                      !.nt = RuleLoop(@, 1, interactions, "probe", impacts, log),
                      !.applied = Append(@, interactions)]
    /\ UNCHANGED storeVars

SpecStatus == InitStatus /\ [][\E interactions \in ProbeInteractions : ApplyProbe(interactions)]_vars

\* the type applied at position p of the application order: logs in list order, within a
\* log the receptors in the record's order; "none" where the log has no interaction there
TypeApplied(p) ==
    LET i == ((p - 1) \div 2) + 1
        k == ((p - 1) % 2) + 1
        receptorId == call.nt.receptors[k].id
        on == {j \in 1..Len(call.applied[i]) : call.applied[i][j].receptorId = receptorId}
    IN IF on = {} THEN "none"
       ELSE call.applied[i][CHOOSE j \in on : \A m \in on : j <= m].type

StatusOf(type) ==
    CASE type \in {"agonist", "precursor", "upregulation"} -> "enhanced"
      [] type = "antagonist" -> "blocked"
      [] type = "downregulation" -> "falling"

\* C23: status is last-write-wins over the application order, except for modulation:
\* with no application it is 'stable'; otherwise it is what the last application other
\* than a modulation wrote, whatever modulations follow it; and with modulations only
\* it is 'enhanced'.
C23_StatusLastWriteWins ==
    call.fn = "updateNTLevels" =>
        LET positions == 1..(2 * Len(call.applied))
            writes == {p \in positions : TypeApplied(p) \notin {"none", "modulation"}}
            modulations == {p \in positions : TypeApplied(p) = "modulation"}
        IN call.nt.status =
              IF writes # {}
              THEN StatusOf(TypeApplied(CHOOSE p \in writes : \A q \in writes : q <= p))
              ELSE IF modulations # {} THEN "enhanced" ELSE "stable"

\* an antagonist on d2 and an agonist on d1 in one log (d1 is applied first, so 'blocked'
\* is written last), then a log with a modulation and a downregulation: 'falling'
C23_Witness ==
    /\ call.fn = "updateNTLevels" /\ Len(call.applied) = 2
    /\ call.applied[1] = <<RI("d2", "dopamine", "antagonist", ProbeMagnitude),
                           RI("d1", "dopamine", "agonist", ProbeMagnitude)>>
    /\ call.applied[2] = <<RI("d1", "dopamine", "downregulation", ProbeMagnitude),
                           RI("d2", "dopamine", "modulation", ProbeMagnitude)>>
    /\ call.nt.status = "falling"
    /\ Len(call.nt.receptors[2].statusEffects) = 2

\* ---------------------------------------------------------------- a stored list, on the ramp

\* logs written just now, one and two minutes ago, and an hour ago, of substances with
\* short and long peak times
RampIds == {"caffeine", "nicotine", "flmodafinil", "bromantane"}
RampOffsets == {0, 0 - UnitsPerMinute, 0 - 2 * UnitsPerMinute, 0 - UnitsPerHour}

NextRamp ==
    \/ \E id \in RampIds : \E offset \in RampOffsets : RestoreLog(id, offset)
    \/ Tick

SpecRamp == InitStored /\ [][NextRamp]_vars

\* C24: an active log whose effectiveness is below 1 is skipped entirely: the snapshot is
\* the one computed without it, and no receptor holds more StatusEffects than effective
\* logs act on it.  An active log with effectiveness >= 1 leaves on every receptor its
\* substance interacts with a StatusEffect with the substance's name, the log's timestamp
\* and the receptor's impact.
C24_NegligibleSkipped ==
    Fresh =>
        LET effective == SelectSeq(substanceLogs,
                            LAMBDA l : getEffectiveness(l, l.substanceId, now) >= 1 * EffScale)
        IN /\ neurotransmitters = RecomputeFrom(InitialNeurotransmitters, effective, now,
                                                getCurrentHour(now))
           /\ \A n \in DOMAIN neurotransmitters : \A k \in DOMAIN neurotransmitters[n].receptors :
                 LET r == neurotransmitters[n].receptors[k]
                     acting == {i \in DOMAIN substanceLogs :
                                   Effective(i) /\ InteractionsOn(i, r.id) # {}}
                 IN /\ Len(r.statusEffects) = Cardinality(acting)
                    /\ \A i \in acting :
                          \E e \in DOMAIN r.statusEffects :
                             /\ r.statusEffects[e].source =
                                   SubstanceName(substanceLogs[i].substanceId)
                             /\ r.statusEffects[e].startTime = substanceLogs[i].timestamp
                             /\ r.statusEffects[e].magnitude = ImpactOf(i, r.id)

\* one minute after two logs: flmodafinil (peak after hours) is below 1 and leaves
\* nothing on d1, caffeine is above 1 and is on a1, a2a and d2
C24_Witness ==
    /\ Fresh /\ Len(substanceLogs) = 2
    /\ substanceLogs[1].substanceId = "flmodafinil"
    /\ substanceLogs[1].timestamp = now - UnitsPerMinute
    /\ getEffectiveness(substanceLogs[1], "flmodafinil", now) \in 1..(1 * EffScale - 1)
    /\ substanceLogs[2].substanceId = "caffeine"
    /\ substanceLogs[2].timestamp = now - UnitsPerMinute
    /\ neurotransmitters[2].receptors[1].statusEffects = <<>>
    /\ Len(neurotransmitters[1].receptors[1].statusEffects) = 1
    /\ neurotransmitters[1].receptors[1].statusEffects[1].source = "Caffeine"
    /\ Len(neurotransmitters[2].receptors[2].statusEffects) = 1

\* ---------------------------------------------------------------- the store: later claims

\* this step is logSubstance appending a log
LogAppended == idCounter' = idCounter + 1 /\ Len(substanceLogs') = Len(substanceLogs) + 1

\* C25: the recompute logSubstance runs right after appending gains nothing from the new
\* log: at elapsed 0 the effectiveness of every catalog dose is 0, and the snapshot the
\* step stores is the one computed from the list as it was before, at that instant.
C25_NewLogInertAtOnce ==
    /\ [](\A id \in SubstanceIds : \A d \in commonDoses(id) :
             getEffectiveness(NewLog(1, id, d, now), id, now) = 0)
    /\ [][LogAppended =>
             LET newLog == substanceLogs'[Len(substanceLogs')]
             IN /\ newLog.timestamp = now'
                /\ getEffectiveness(newLog, newLog.substanceId, now') = 0
                /\ lastUpdate' = [now |-> now', logs |-> substanceLogs']
                /\ neurotransmitters' = RecomputeFrom(InitialNeurotransmitters, substanceLogs,
                                                      now', getCurrentHour(now'))]_vars

\* caffeine was logged a quarter of an hour ago and nicotine just now: the snapshot is
\* fresh, caffeine is on a1, and d1, which only nicotine acts on, holds nothing yet
C25_Witness ==
    /\ Fresh /\ Len(substanceLogs) = 2
    /\ substanceLogs[1].substanceId = "caffeine"
    /\ substanceLogs[1].timestamp = now - 15 * UnitsPerMinute
    /\ substanceLogs[2].substanceId = "nicotine" /\ substanceLogs[2].timestamp = now
    /\ substanceLogs[2].expectedClearance > now
    /\ Len(neurotransmitters[1].receptors[1].statusEffects) = 1
    /\ neurotransmitters[2].receptors[1].statusEffects = <<>>

\* the logs the recompute applies to the receptor, in list order
ActingOn(receptorId) ==
    SelectSeq([i \in DOMAIN substanceLogs |-> i],
              LAMBDA i : Effective(i) /\ InteractionsOn(i, receptorId) # {})

RECURSIVE SumImpacts(_, _, _)
SumImpacts(indices, receptorId, types) ==
    IF indices = <<>> THEN 0
    ELSE (IF EffectOf(Head(indices), receptorId).type \in types
          THEN ImpactOf(Head(indices), receptorId) ELSE 0)
         + SumImpacts(Tail(indices), receptorId, types)

\* the recorded magnitudes of the substance on the receptor, summed
RECURSIVE RecordedImpact(_, _)
RecordedImpact(effects, source) ==
    IF effects = <<>> THEN 0
    ELSE (IF Head(effects).source = source THEN Head(effects).magnitude ELSE 0)
         + RecordedImpact(Tail(effects), source)

\* C26: the cap of 100 on an impact is per log.  Every effective log leaves its own
\* StatusEffect on each receptor it acts on, with its own impact, also next to logs of the
\* same substance, and applies its own change: sensitivity rises by 0.2 of each
\* upregulation impact (up to 150), and the adenosine level, which only antagonists act
\* on, falls by 0.3 of each impact (down to 0).
C26_CapIsPerLog ==
    Fresh =>
        \A n \in DOMAIN neurotransmitters :
            /\ \A k \in DOMAIN neurotransmitters[n].receptors :
                  LET r == neurotransmitters[n].receptors[k]
                      acting == ActingOn(r.id)
                  IN /\ r.statusEffects = [e \in DOMAIN acting |-> EffectOf(acting[e], r.id)]
                     /\ \A e \in DOMAIN r.statusEffects :
                           r.statusEffects[e].magnitude <= 100 * ImpactScale
                     /\ r.sensitivity =
                           Min(150 * LevelScale,
                               100 * LevelScale + 20 * SumImpacts(acting, r.id, {"upregulation"}))
            /\ neurotransmitters[n].id = "adenosine" =>
                  neurotransmitters[n].currentLevel =
                      Max(0, getLevel("adenosine", getCurrentHour(now))
                             - 30 * (SumImpacts(ActingOn("a1"), "a1", {"antagonist"})
                                     + SumImpacts(ActingOn("a2a"), "a2a", {"antagonist"})))

\* two caffeine logs at their peak: a1 holds two caffeine effects of 80 each, 160 in all,
\* and the adenosine level is lower than after one
C26_Witness ==
    /\ Fresh /\ Len(substanceLogs) = 2
    /\ \A i \in 1..2 : substanceLogs[i].substanceId = "caffeine"
    /\ Len(neurotransmitters[1].receptors[1].statusEffects) = 2
    /\ RecordedImpact(neurotransmitters[1].receptors[1].statusEffects, "Caffeine")
          = 160 * ImpactScale
    /\ neurotransmitters[1].currentLevel > 0
    /\ neurotransmitters[1].currentLevel
          = getLevel("adenosine", getCurrentHour(now)) - 30 * 300 * ImpactScale

\* ---------------------------------------------------------------- a stored list, expiring

\* logs of substances that clear within ten hours, written a quarter of an hour before the
\* page is opened; then the tick, the clock and removeLog
ExpiryIds == {"nicotine", "l-theanine"}

NextExpiry ==
    \/ \E id \in ExpiryIds : RestoreLog(id, 0 - 15 * UnitsPerMinute)
    \/ Tick
    \/ \E d \in Deltas : Advance(d)
    \/ \E logId \in 1..(idCounter + 1) : removeLog(logId)

SpecExpiry == InitStored /\ [][NextExpiry]_vars

\* what a firing of the interval does to the record of the last recompute: it is the
\* recompute of the list as it is, at the present clock
TickFires ==
    /\ lastUpdate' = [now |-> now, logs |-> substanceLogs]
    /\ UNCHANGED <<now, substanceLogs>>

\* setInterval(updateNTLevels, 30000): the tick keeps firing
SpecExpiryFair == SpecExpiry /\ WF_lastUpdate(TickFires)

\* the log with this id is in the list and its expectedClearance has passed
ExpiredLog(x) ==
    \E i \in DOMAIN substanceLogs :
        substanceLogs[i].id = x /\ substanceLogs[i].expectedClearance <= now

\* the stored snapshot holds a StatusEffect of the log with this id
Contributes(x) ==
    \E i \in DOMAIN substanceLogs :
        /\ substanceLogs[i].id = x
        /\ \E n \in DOMAIN neurotransmitters : \E k \in DOMAIN neurotransmitters[n].receptors :
              \E e \in DOMAIN neurotransmitters[n].receptors[k].statusEffects :
                 LET effect == neurotransmitters[n].receptors[k].statusEffects[e]
                 IN /\ effect.startTime = substanceLogs[i].timestamp
                    /\ effect.source = SubstanceName(substanceLogs[i].substanceId)

\* C27: the stored snapshot changes only when updateNTLevels runs, so a log whose
\* expectedClearance passes stays in it until then; with the tick firing, the contribution
\* of every expired log is eventually gone from the stored snapshot, and once gone it
\* stays gone.
C27_ExpiredEventuallyAbsent ==
    /\ [][/\ neurotransmitters' # neurotransmitters => lastUpdate' # lastUpdate
          /\ \A x \in 1..MaxStoredLogs :
                (ExpiredLog(x) /\ ~Contributes(x)) => ~Contributes(x)']_vars
    /\ \A x \in 1..MaxStoredLogs : (ExpiredLog(x) /\ Contributes(x)) ~> ~Contributes(x)

\* ten hours after the last recompute the nicotine log has cleared, and the stored
\* snapshot still holds its effect on d1
C27_Witness ==
    /\ ExpiredLog(1) /\ Contributes(1) /\ ~Fresh
    /\ substanceLogs[1].substanceId = "nicotine"
    /\ lastUpdate.now = now - 10 * UnitsPerHour
    /\ neurotransmitters[2].receptors[1].statusEffects # <<>>

\* ---------------------------------------------------------------- several interactions on a receptor

\* No catalog substance lists two interactions on one receptor, so the loop body is run on
\* lists of up to MaxInteractions interactions over d1 and d2.
MultiTypes == {"agonist", "antagonist", "upregulation"}
MultiMagnitudes == {40}
MultiEffectiveness == {50 * EffScale, 100 * EffScale}
MultiLists ==
    UNION {[1..n -> {RI(r, "dopamine", t, m) :
                        r \in {"d1", "d2"}, t \in MultiTypes, m \in MultiMagnitudes}] :
              n \in 1..MaxInteractions}

InitMulti ==
    /\ InitIdle
    /\ call = [fn |-> "updateNTLevels",
               nt |-> ResetNT(InitialNeurotransmitters[2], getCurrentHour(now)),
               applied |-> <<>>, effectiveness |-> 0]

\* one pass of the loop over activeLogs, for a log of this effectiveness
ApplyMulti(interactions, effectiveness) ==
    /\ call.fn = "updateNTLevels"
    /\ call.applied = <<>>
    /\ LET log == [id |-> 1, timestamp |-> now]
           impacts == calculateReceptorImpact(interactions, effectiveness)
       IN call' = [call EXCEPT
                      !.nt = RuleLoop(@, 1, interactions, "probe", impacts, log),
                      !.applied = <<interactions>>,
                      !.effectiveness = effectiveness]
    /\ UNCHANGED storeVars

SpecMulti ==
    InitMulti /\ [][\E interactions \in MultiLists : \E effectiveness \in MultiEffectiveness :
                       ApplyMulti(interactions, effectiveness)]_vars

\* the level after one rule of this type with this impact
LevelAfter(type, level, impact) ==
    CASE type = "agonist" -> Min(level + 30 * impact, 100 * LevelScale)
      [] type = "antagonist" -> Max(level - 30 * impact, 0)
      [] type = "modulation" -> Min(level + 15 * impact, 100 * LevelScale)
      [] OTHER -> level

\* C28: a log leaves on each receptor its substance interacts with exactly one StatusEffect
\* and applies exactly one rule there, however many interactions the substance lists on
\* it: the type is that of the first interaction listed on the receptor, the magnitude is
\* the capped sum of the impacts of all of them.  A receptor without interaction is left
\* as it was.
C28_OneEffectPerReceptor ==
    (call.fn = "updateNTLevels" /\ call.applied # <<>>) =>
        LET interactions == call.applied[1]
            base == ResetNT(InitialNeurotransmitters[2], getCurrentHour(now))
            on(k) == {j \in DOMAIN interactions :
                         interactions[j].receptorId = call.nt.receptors[k].id}
            type(k) == IF on(k) = {} THEN "none"
                       ELSE interactions[CHOOSE j \in on(k) : \A m \in on(k) : j <= m].type
            impact(k) == Min(100 * ImpactScale,
                             SumOn(interactions, call.effectiveness, call.nt.receptors[k].id, 1))
        IN /\ \A k \in DOMAIN call.nt.receptors :
                 LET r == call.nt.receptors[k]
                 IN IF on(k) = {}
                    THEN r = base.receptors[k]
                    ELSE /\ Len(r.statusEffects) = 1
                         /\ r.statusEffects[1].type = type(k)
                         /\ r.statusEffects[1].magnitude = impact(k)
                         /\ r.sensitivity = IF type(k) = "upregulation"
                                            THEN 100 * LevelScale + 20 * impact(k)
                                            ELSE 100 * LevelScale
           /\ call.nt.currentLevel =
                 LevelAfter(type(2), LevelAfter(type(1), base.currentLevel, impact(1)),
                            impact(2))

\* an antagonist, an agonist and an upregulation of 40 each on d1, at 50%: one effect on
\* d1, an antagonist's, of 60; the level falls by 0.3 * 60 once; d2 is untouched
C28_Witness ==
    /\ call.fn = "updateNTLevels" /\ call.effectiveness = 50 * EffScale
    /\ call.applied = << <<RI("d1", "dopamine", "antagonist", 40),
                           RI("d1", "dopamine", "agonist", 40),
                           RI("d1", "dopamine", "upregulation", 40)>> >>
    /\ Len(call.nt.receptors[1].statusEffects) = 1
    /\ call.nt.receptors[1].statusEffects[1].type = "antagonist"
    /\ call.nt.receptors[1].statusEffects[1].magnitude = 60 * ImpactScale
    /\ call.nt.receptors[1].sensitivity = 100 * LevelScale
    /\ call.nt.receptors[2].statusEffects = <<>>
    /\ call.nt.status = "blocked"
    /\ call.nt.currentLevel = getLevel("dopamine", getCurrentHour(now)) - 18 * LevelScale

\* ---------------------------------------------------------------- the sleep schedule

\* C29: the recomputed snapshot does not depend on the stored sleep schedule.  A recompute
\* at the clock and log list of a fresh snapshot stores that snapshot again, whether or
\* not the schedule changed in the step, and a fresh snapshot is the one built from the
\* pristine definitions, the clock and the list alone; a step that changes the schedule
\* stores one of the schedules it was called with and leaves the log list as it was.
C29_ScheduleNotRead ==
    /\ [](Fresh => neurotransmitters =
                      RecomputeFrom(InitialNeurotransmitters, substanceLogs, now,
                                    getCurrentHour(now)))
    /\ [][(Fresh /\ now' = now /\ substanceLogs' = substanceLogs)
             => neurotransmitters' = neurotransmitters]_vars
    /\ [][sleepSchedule' # sleepSchedule
             => /\ sleepSchedule' \in SleepSchedules
                /\ substanceLogs' = substanceLogs
                /\ idCounter' = idCounter
                /\ lastUpdate' = [now |-> now, logs |-> substanceLogs]]_vars

\* a quarter past eight with caffeine at work and the wake time set to half past nine:
\* adenosine stands at 17, one hour and a quarter of accumulation from 7
C29_Witness ==
    /\ sleepSchedule = [wakeTime |-> "09:30", sleepTime |-> "01:00"]
    /\ Fresh /\ now = 8 * UnitsPerHour + 15 * UnitsPerMinute
    /\ Len(substanceLogs) = 1 /\ substanceLogs[1].substanceId = "caffeine"
    /\ Len(neurotransmitters[1].receptors[1].statusEffects) = 1
    /\ neurotransmitters[1].currentLevel < adenosineLevel(getCurrentHour(now))
    /\ adenosineLevel(getCurrentHour(now)) = 17 * LevelScale

\* ---------------------------------------------------------------- one log, from logging to clearance

\* One log of a catalog substance is followed from logSubstance to its clearance, the
\* interval's recompute firing at every instant the clock is read: each minute up to the
\* peak, each hour after it, and at the last instant before expectedClearance.  The doses
\* logged are the card's buttons, the anchors of getDosePK and the ends of the dose range;
\* every reading is also taken for a log of every other dose written at the same time.
CourseDoses(id) ==
    commonDoses(id) \cup {AnchorLow(id), AnchorHigh(id)}
        \cup {d \in PKDoses(id) : (\A e \in PKDoses(id) : d <= e) \/ (\A e \in PKDoses(id) : d >= e)}

CourseLog(id, dosage) ==
    /\ idCounter = 0
    /\ logSubstance(id, dosage)

\* how far the clock moves to the next reading
CourseStep ==
    LET log == substanceLogs[1]
        pk == getDosePK(log.substanceId, log.dosage)
    IN IF now - log.timestamp < pk.peakTime * UnitsPerMinute
       THEN UnitsPerMinute ELSE UnitsPerHour

Pass ==
    /\ Len(substanceLogs) = 1 /\ Fresh
    /\ substanceLogs[1].expectedClearance > now
    /\ now' = now + CourseStep
    /\ UNCHANGED <<defaultNeurotransmitters, neurotransmitters, substanceLogs, sleepSchedule,
                   viewMode, idCounter, advances, lastUpdate, call>>

PassToLastInstant ==
    /\ Len(substanceLogs) = 1 /\ Fresh
    /\ substanceLogs[1].expectedClearance - 1 > now
    /\ now' = substanceLogs[1].expectedClearance - 1
    /\ UNCHANGED <<defaultNeurotransmitters, neurotransmitters, substanceLogs, sleepSchedule,
                   viewMode, idCounter, advances, lastUpdate, call>>

NextCourse ==
    \/ \E id \in SubstanceIds : \E dosage \in CourseDoses(id) : CourseLog(id, dosage)
    \/ Pass
    \/ PassToLastInstant
    \/ Tick
    \/ removeLog(1)

SpecCourse == InitStored /\ [][NextCourse]_vars

\* the log with this id is in the list, still active and past its peak
PastPeak(x) ==
    \E i \in DOMAIN substanceLogs :
        /\ substanceLogs[i].id = x
        /\ substanceLogs[i].expectedClearance > now
        /\ now - substanceLogs[i].timestamp >=
              getDosePK(substanceLogs[i].substanceId, substanceLogs[i].dosage).peakTime
                  * UnitsPerMinute

\* the log with this id is in the list and still active
ActiveLog(x) ==
    \E i \in DOMAIN substanceLogs :
        substanceLogs[i].id = x /\ substanceLogs[i].expectedClearance > now

\* C30: a log of a catalog substance that is still active and past its peak has an
\* effectiveness of at least 1, so a fresh snapshot holds its contribution: the skip can
\* drop a log only on its onset ramp.  Once a recompute has contributed a log, every later
\* recompute that finds it in the list and active contributes it again.
C30_SkipOnlyOnRamp ==
    /\ [](\A i \in DOMAIN substanceLogs :
             /\ \A dosage \in PKDoses(substanceLogs[i].substanceId) :
                   LET log == NewLog(substanceLogs[i].id, substanceLogs[i].substanceId,
                                     dosage, substanceLogs[i].timestamp)
                       peak == getDosePK(log.substanceId, dosage).peakTime * UnitsPerMinute
                   IN (log.expectedClearance > now /\ now - log.timestamp >= peak)
                          => getEffectiveness(log, log.substanceId, now) >= 1 * EffScale
             /\ (PastPeak(substanceLogs[i].id) /\ Fresh) => Contributes(substanceLogs[i].id))
    /\ [][\A x \in 1..MaxLogs :
             (Contributes(x) /\ Fresh' /\ ActiveLog(x)') => Contributes(x)']_vars

\* 100 mg of caffeine at the last instant before its clearance, 20.6 h after logging:
\* between 5 and 6 percent are left and the fresh snapshot holds its effect on a1
C30_Witness ==
    /\ Fresh /\ Len(substanceLogs) = 1
    /\ substanceLogs[1].substanceId = "caffeine" /\ substanceLogs[1].dosage = 100
    /\ now = substanceLogs[1].expectedClearance - 1
    /\ getEffectiveness(substanceLogs[1], "caffeine", now) \in (5 * EffScale)..(6 * EffScale)
    /\ Len(neurotransmitters[1].receptors[1].statusEffects) = 1
    /\ neurotransmitters[1].receptors[1].statusEffects[1].startTime = substanceLogs[1].timestamp

====
